---- MODULE Spec2Model ----
(***************************************************************************)
(* The transcription core of festeh/silence: the two transcription         *)
(* providers (ElevenLabs, Chutes) and the ProviderChain that tries them in *)
(* order.  A call of ProviderChain.Transcribe is a small process: it       *)
(* starts, invokes one provider at a time (the provider prepares its       *)
(* request, issues it with client.Do and turns the response into a result  *)
(* or an error) and returns.                                               *)
(*                                                                         *)
(* Spec      one request slot that is reused for MaxRounds sequential      *)
(*           calls, with the full set of network outcomes.                 *)
(* SpecConc  NumCalls calls of the one shared chain running concurrently.  *)
(***************************************************************************)
EXTENDS Integers, Sequences, FiniteSets, TLC

\* ------------------------------------------------------------ bounds
MaxProviders == 2
MaxRounds == 2
NumCalls == 2
MaxPcmLen == 3
MaxWavCalls == 2
MaxStartups == 3

Calls == 1..NumCalls

\* ------------------------------------------------------------ values
\* http.StatusOK
StatusOK == 200

AudioFormatPCMLE16 == "pcm_s16le_16"
AudioFormatWAV == "wav"

\* Go's nil, for a *TranscriptionResult and for an error
NilResult == [kind |-> "nil"]
NilErr == [kind |-> "nil"]
\* a nil *string
NilPtr == [kind |-> "nil"]

TranscriptionResult(text, lang) ==
    [kind |-> "result", Text |-> text, LanguageCode |-> lang]

AudioMetadata(format) ==
    [Format |-> format, SampleRate |-> 16000, Channels |-> 1, BitsPerSample |-> 16]

TranscriptionOptions(lang, format) ==
    [LanguageCode |-> lang, Metadata |-> AudioMetadata(format)]

\* Texts are sequences of characters, so that trimming and concatenation
\* are computed and not assumed.
Space == " "
Tab == "\t"
Newline == "\n"
TextHi == <<" ", "h", "i">>
TextPadded == <<" ", "a">>
TextTail == <<"b", " ">>
TextPaddedTab == <<" ", "a", "\t">>
TextHead == <<"\n", " ", "a">>
TextTailTab == <<"b", " ", "\t">>

\* ------------------------------------------------------------ response bodies
\* A response body is a JSON document (by its abstract syntax) or text that
\* is not JSON.  An object is a record of its members, so that a member may
\* be absent.
JsonString(value) == [type |-> "string", value |-> value]
\* a number, by the characters of its literal
JsonNumber(value) == [type |-> "number", value |-> value]
JsonNull == [type |-> "null"]
JsonEmptyObject == [type |-> "object"]
JsonObject(text, lang) ==
    [type |-> "object", text |-> JsonString(text), language_code |-> JsonString(lang)]
JsonSegment(text) ==
    [type |-> "object", start |-> JsonNumber(<<"0">>), end |-> JsonNumber(<<"1">>),
     text |-> JsonString(text)]
JsonArray(items) == [type |-> "array", items |-> items]
NotJson(raw) == [type |-> "invalid", raw |-> raw]

ObjBody == JsonObject(TextHi, "en")
ArrBody == JsonArray(<<JsonSegment(TextPadded), JsonSegment(TextTail)>>)
ErrBody == NotJson("Internal Server Error")

\* {"text":" a\t","language_code":"en"} and {"text":"","language_code":"en"}
ObjPaddedBody == JsonObject(TextPaddedTab, "en")
ObjEmptyTextBody == JsonObject(<<>>, "en")
\* {"text":5,"language_code":"en"}
ObjNumberTextBody ==
    [type |-> "object", text |-> JsonNumber(<<"5">>), language_code |-> JsonString("en")]
\* [{"start":0,"end":1,"text":"\n a"},{"start":0,"end":1,"text":"b \t"}]
ArrPaddedBody == JsonArray(<<JsonSegment(TextHead), JsonSegment(TextTailTab)>>)
\* [], [{}], [null] and [5]
ArrEmptyBody == JsonArray(<<>>)
ArrEmptyObjectBody == JsonArray(<<JsonEmptyObject>>)
ArrNullBody == JsonArray(<<JsonNull>>)
ArrNumberBody == JsonArray(<<JsonNumber(<<"5">>)>>)

\* What io.ReadAll holds when the read stops with an error before the end
\* of the body: a strict prefix of the document, which is not the document.
Truncated(body) == [type |-> "invalid", prefixOf |-> body]

\* ------------------------------------------------------------ the network
\* client.Do either fails (timeout, DNS, refused connection) or yields a
\* response; reading the response body may itself fail part-way.
NetFail == [kind |-> "fail"]
Response(status, body, readOK) ==
    [kind |-> "resp", status |-> status, body |-> body, readOK |-> readOK]

NetOutcomes ==
    { NetFail,
      Response(StatusOK, ObjBody, TRUE),
      Response(StatusOK, ArrBody, TRUE),
      Response(StatusOK, ErrBody, TRUE),
      Response(StatusOK, ObjBody, FALSE),
      Response(204, ErrBody, TRUE),
      Response(500, ErrBody, TRUE),
      Response(500, ErrBody, FALSE) }

ConcNetOutcomes ==
    { NetFail,
      Response(StatusOK, ObjBody, TRUE),
      Response(StatusOK, ArrBody, TRUE) }

\* io.ReadAll(resp.Body): the bytes read and whether the read failed
ReadAll(resp) ==
    [data |-> IF resp.readOK THEN resp.body ELSE Truncated(resp.body),
     err |-> ~resp.readOK]

\* ------------------------------------------------------------ errors
\* The errors are fmt.Errorf strings in the code; each is modelled by the
\* message's fixed part (kind, provider) and the values formatted into it.
ErrUnsupportedFormat(format) ==
    [kind |-> "UnsupportedFormat", provider |-> "ElevenLabs", format |-> format]
ErrNetworkFailure(provider) ==
    [kind |-> "NetworkFailure", provider |-> provider]
ErrReadFailed(provider) ==
    [kind |-> "ReadFailed", provider |-> provider]
ErrNonOKStatusNoBody(provider, status, body) ==
    [kind |-> "NonOKStatus", provider |-> provider, status |-> status,
     body |-> NotJson("")]
ErrNonOKStatus(provider, status, body) ==
    [kind |-> "NonOKStatus", provider |-> provider, status |-> status,
     body |-> body]
ErrResponseDecodeFailed(provider) ==
    [kind |-> "ResponseDecodeFailed", provider |-> provider]

\* what a provider's Transcribe returns: (*TranscriptionResult, error)
Return(result, err) == [result |-> result, err |-> err]

\* ------------------------------------------------------------ text helpers
\* the white space of the texts, of what unicode.IsSpace accepts
WhiteSpace == {Space, Tab, Newline}

RECURSIVE TrimLeft(_)
TrimLeft(t) ==
    IF t # <<>> /\ Head(t) \in WhiteSpace THEN TrimLeft(Tail(t)) ELSE t

RECURSIVE TrimRight(_)
TrimRight(t) ==
    IF t # <<>> /\ t[Len(t)] \in WhiteSpace
    THEN TrimRight(SubSeq(t, 1, Len(t) - 1))
    ELSE t

\* strings.TrimSpace
TrimSpace(t) == TrimRight(TrimLeft(t))

\* ------------------------------------------------------------ audio bytes
\* audioData / pcmData are byte sequences; the inputs are all sequences of
\* up to MaxPcmLen bytes over SampleBytes.
SampleBytes == {0, 255}
PcmInputs == UNION { [1..n -> SampleBytes] : n \in 0..MaxPcmLen }

\* binary.Write(&buf, binary.LittleEndian, uint32(x)): the low 32 bits of
\* x, least significant byte first
LE32(x) ==
    <<x % 256, (x \div 256) % 256, (x \div 65536) % 256, (x \div 16777216) % 256>>

\* binary.Write(&buf, binary.LittleEndian, uint16(x))
LE16(x) == <<x % 256, (x \div 256) % 256>>

\* buf.WriteString of the four chunk tags, as their ASCII bytes
TagRIFF == <<82, 73, 70, 70>>
TagWAVE == <<87, 65, 86, 69>>
TagFmt == <<102, 109, 116, 32>>
TagData == <<100, 97, 116, 97>>

PcmToWavRiffSizeOfFile(pcmData, sampleRate, channels, bitsPerSample) ==
    LET dataSize == Len(pcmData)
        fileSize == 44 + dataSize
        byteRate == (sampleRate * channels * bitsPerSample) \div 8
        blockAlign == (channels * bitsPerSample) \div 8
    IN  [data |-> TagRIFF \o LE32(fileSize) \o TagWAVE
                    \o TagFmt \o LE32(16) \o LE16(1) \o LE16(channels)
                    \o LE32(sampleRate) \o LE32(byteRate) \o LE16(blockAlign)
                    \o LE16(bitsPerSample)
                    \o TagData \o LE32(dataSize) \o pcmData,
         err |-> NilErr]

PcmToWavNoDataSize(pcmData, sampleRate, channels, bitsPerSample) ==
    LET dataSize == Len(pcmData)
        fileSize == 36 + dataSize
        byteRate == (sampleRate * channels * bitsPerSample) \div 8
        blockAlign == (channels * bitsPerSample) \div 8
    IN  [data |-> TagRIFF \o LE32(fileSize) \o TagWAVE
                    \o TagFmt \o LE32(16) \o LE16(1) \o LE16(channels)
                    \o LE32(sampleRate) \o LE32(byteRate) \o LE16(blockAlign)
                    \o LE16(bitsPerSample)
                    \o TagData \o pcmData,
         err |-> NilErr]

\* PcmToWav(pcmData, sampleRate, channels, bitsPerSample): the 44-byte
\* header followed by the samples; the error is always nil.
PcmToWav(pcmData, sampleRate, channels, bitsPerSample) ==
    LET dataSize == Len(pcmData)
        fileSize == 36 + dataSize
        byteRate == (sampleRate * channels * bitsPerSample) \div 8
        blockAlign == (channels * bitsPerSample) \div 8
    IN  [data |-> TagRIFF \o LE32(fileSize) \o TagWAVE
                    \o TagFmt \o LE32(16) \o LE16(1) \o LE16(channels)
                    \o LE32(sampleRate) \o LE32(byteRate) \o LE16(blockAlign)
                    \o LE16(bitsPerSample)
                    \o TagData \o LE32(dataSize) \o pcmData,
         err |-> NilErr]

\* readWAVFile once os.ReadFile has the bytes: a file shorter than the
\* header or without the RIFF and WAVE tags is refused, otherwise the bytes
\* after the first 44 are the samples.
ReadWAVFile(data) ==
    IF Len(data) < 44
    THEN [pcmData |-> <<>>, err |-> [kind |-> "WavTooSmall"]]
    ELSE IF SubSeq(data, 1, 4) # TagRIFF \/ SubSeq(data, 9, 12) # TagWAVE
    THEN [pcmData |-> <<>>, err |-> [kind |-> "NotWav"]]
    ELSE [pcmData |-> SubSeq(data, 45, Len(data)), err |-> NilErr]

\* base64.StdEncoding.EncodeToString: three bytes become four characters of
\* the alphabet, a last group of one or two bytes is padded with "=".
B64Alphabet ==
    <<"A","B","C","D","E","F","G","H","I","J","K","L","M","N","O","P",
      "Q","R","S","T","U","V","W","X","Y","Z","a","b","c","d","e","f",
      "g","h","i","j","k","l","m","n","o","p","q","r","s","t","u","v",
      "w","x","y","z","0","1","2","3","4","5","6","7","8","9","+","/">>

B64Char(v) == B64Alphabet[v + 1]

RECURSIVE EncodeToString(_)
EncodeToString(src) ==
    IF src = <<>> THEN <<>>
    ELSE IF Len(src) = 1
    THEN LET n == src[1] * 65536 IN
         <<B64Char(n \div 262144), B64Char((n \div 4096) % 64), "=", "=">>
    ELSE IF Len(src) = 2
    THEN LET n == src[1] * 65536 + src[2] * 256 IN
         <<B64Char(n \div 262144), B64Char((n \div 4096) % 64),
           B64Char((n \div 64) % 64), "=">>
    ELSE LET n == src[1] * 65536 + src[2] * 256 + src[3] IN
         <<B64Char(n \div 262144), B64Char((n \div 4096) % 64),
           B64Char((n \div 64) % 64), B64Char(n % 64)>>
             \o EncodeToString(SubSeq(src, 4, Len(src)))

\* ------------------------------------------------------------ ElevenLabs
\* encoding/json filling a string field of a struct from an object: an
\* absent member or a null leaves the field at its zero value, a string
\* sets it, any other value is an error.
StringField(obj, name, zero) ==
    IF name \notin DOMAIN obj THEN [err |-> FALSE, value |-> zero]
    ELSE IF obj[name].type = "string" THEN [err |-> FALSE, value |-> obj[name].value]
    ELSE IF obj[name].type = "null" THEN [err |-> FALSE, value |-> zero]
    ELSE [err |-> TRUE, value |-> zero]

\* json.NewDecoder(resp.Body).Decode(&elevenLabsResp): an object fills the
\* struct member by member, null leaves it zero, anything else is an error.
ElevenLabsDecode(data) ==
    CASE data.type = "object" ->
            LET text == StringField(data, "text", <<>>)
                lang == StringField(data, "language_code", "")
            IN  [err |-> text.err \/ lang.err,
                 Text |-> text.value, LanguageCode |-> lang.value]
      [] data.type = "null" ->
            [err |-> FALSE, Text |-> <<>>, LanguageCode |-> ""]
      [] OTHER ->
            [err |-> TRUE, Text |-> <<>>, LanguageCode |-> ""]

ElevenLabsFormatWavAsWav(format) ==
    CASE format = AudioFormatPCMLE16 ->
            [ok |-> TRUE, fileFormat |-> "pcm_s16le_16", filename |-> "audio.pcm"]
      [] format = AudioFormatWAV ->
            [ok |-> TRUE, fileFormat |-> "wav", filename |-> "audio.wav"]
      [] OTHER ->
            [ok |-> FALSE, fileFormat |-> "", filename |-> ""]

\* switch opts.Metadata.Format: the file_format field and the file name of
\* the upload, or no request at all (ok is FALSE in the default case).
ElevenLabsFormat(format) ==
    CASE format = AudioFormatPCMLE16 ->
            [ok |-> TRUE, fileFormat |-> "pcm_s16le_16", filename |-> "audio.pcm"]
      [] format = AudioFormatWAV ->
            [ok |-> TRUE, fileFormat |-> "other", filename |-> "audio.wav"]
      [] OTHER ->
            [ok |-> FALSE, fileFormat |-> "", filename |-> ""]

\* The part of ElevenLabsProvider.Transcribe before client.Do: the switch on
\* opts.Metadata.Format.  NilErr when the request goes out.
ElevenLabsPrepare(opts) ==
    IF ElevenLabsFormat(opts.Metadata.Format).ok
    THEN NilErr
    ELSE ErrUnsupportedFormat(opts.Metadata.Format)

\* writer.WriteField(name, value)
FormField(name, value) == [name |-> name, value |-> value]

ElevenLabsRequestAutoSent(audioData, opts) ==
    LET f == ElevenLabsFormat(opts.Metadata.Format) IN
    [kind |-> "multipart",
     url |-> "https://api.elevenlabs.io/v1/speech-to-text",
     fields |-> <<FormField("model_id", "scribe_v1"),
                  FormField("file_format", f.fileFormat)>>
                  \o (IF opts.LanguageCode # ""
                      THEN <<FormField("language_code", opts.LanguageCode)>>
                      ELSE <<>>),
     file |-> [name |-> "file", filename |-> f.filename, data |-> audioData]]

\* The multipart form ElevenLabsProvider.Transcribe posts: the fields in
\* the order they are written, then the file part with audioData as it was
\* passed in.
ElevenLabsRequest(audioData, opts) ==
    LET f == ElevenLabsFormat(opts.Metadata.Format) IN
    [kind |-> "multipart",
     url |-> "https://api.elevenlabs.io/v1/speech-to-text",
     fields |-> <<FormField("model_id", "scribe_v1"),
                  FormField("file_format", f.fileFormat)>>
                  \o (IF opts.LanguageCode # "" /\ opts.LanguageCode # "auto"
                      THEN <<FormField("language_code", opts.LanguageCode)>>
                      ELSE <<>>),
     file |-> [name |-> "file", filename |-> f.filename, data |-> audioData]]

ElevenLabsFinishPartial(net) ==
    IF net.kind = "fail"
    THEN Return(NilResult, ErrNetworkFailure("ElevenLabs"))
    ELSE IF net.status # StatusOK
    THEN Return(NilResult, ErrNonOKStatus("ElevenLabs", net.status, ReadAll(net).data))
    ELSE LET d == ElevenLabsDecode(ReadAll(net).data) IN
         IF d.err
         THEN Return(TranscriptionResult(<<>>, ""), ErrResponseDecodeFailed("ElevenLabs"))
         ELSE Return(TranscriptionResult(d.Text, d.LanguageCode), NilErr)

ElevenLabsFinishTrimmed(net) ==
    IF net.kind = "fail"
    THEN Return(NilResult, ErrNetworkFailure("ElevenLabs"))
    ELSE IF net.status # StatusOK
    THEN Return(NilResult, ErrNonOKStatus("ElevenLabs", net.status, ReadAll(net).data))
    ELSE LET d == ElevenLabsDecode(ReadAll(net).data) IN
         IF d.err
         THEN Return(NilResult, ErrResponseDecodeFailed("ElevenLabs"))
         ELSE Return(TranscriptionResult(TrimSpace(d.Text), d.LanguageCode), NilErr)

\* The part of ElevenLabsProvider.Transcribe from client.Do on.
ElevenLabsFinishAny2xx(net) ==
    IF net.kind = "fail"
    THEN Return(NilResult, ErrNetworkFailure("ElevenLabs"))
    ELSE IF net.status \notin 200..299
    THEN Return(NilResult, ErrNonOKStatus("ElevenLabs", net.status, ReadAll(net).data))
    ELSE LET d == ElevenLabsDecode(ReadAll(net).data) IN
         IF d.err
         THEN Return(NilResult, ErrResponseDecodeFailed("ElevenLabs"))
         ELSE Return(TranscriptionResult(d.Text, d.LanguageCode), NilErr)

ElevenLabsFinish(net) ==
    IF net.kind = "fail"
    THEN Return(NilResult, ErrNetworkFailure("ElevenLabs"))
    ELSE IF net.status # StatusOK
    THEN Return(NilResult, ErrNonOKStatus("ElevenLabs", net.status, ReadAll(net).data))
    ELSE LET d == ElevenLabsDecode(ReadAll(net).data) IN
         IF d.err
         THEN Return(NilResult, ErrResponseDecodeFailed("ElevenLabs"))
         ELSE Return(TranscriptionResult(d.Text, d.LanguageCode), NilErr)

\* ------------------------------------------------------------ Chutes
\* encoding/json filling one chutesSegment from an array element: an
\* object sets Text from its text member, null leaves the segment zero,
\* anything else is an error.
ChutesSegmentDecode(item) ==
    CASE item.type = "object" -> StringField(item, "text", <<>>)
      [] item.type = "null" -> [err |-> FALSE, value |-> <<>>]
      [] OTHER -> [err |-> TRUE, value |-> <<>>]

\* json.Unmarshal(body, &segments) with segments []chutesSegment: an array
\* gives one segment per element, null gives no segments, anything else is
\* an error.
ChutesDecode(data) ==
    CASE data.type = "array" ->
            IF \A k \in DOMAIN data.items : ~ChutesSegmentDecode(data.items[k]).err
            THEN [err |-> FALSE,
                  segments |-> [k \in DOMAIN data.items |->
                                  ChutesSegmentDecode(data.items[k]).value]]
            ELSE [err |-> TRUE, segments |-> <<>>]
      [] data.type = "null" -> [err |-> FALSE, segments |-> <<>>]
      [] OTHER -> [err |-> TRUE, segments |-> <<>>]

\* for _, seg := range segments { fullText += seg.Text }
RECURSIVE ConcatSegments(_)
ConcatSegments(segments) ==
    IF segments = <<>> THEN <<>>
    ELSE Head(segments) \o ConcatSegments(Tail(segments))

\* The part of ChutesProvider.Transcribe before client.Do: PcmToWav never
\* returns an error and json.Marshal of chutesRequest cannot fail.
ChutesPrepare(opts) == NilErr

\* json.Marshal(reqBody): the language member is there only when
\* reqBody.Language is not nil (omitempty).
ChutesBody(audioB64, language) ==
    IF language = NilPtr
    THEN [audio_b64 |-> audioB64]
    ELSE [audio_b64 |-> audioB64, language |-> language.value]

ChutesRequestNoWav(audioData, opts) ==
    [kind |-> "json",
     url |-> "https://chutes-whisper-large-v3.chutes.ai/transcribe",
     body |-> ChutesBody(EncodeToString(audioData),
                         IF opts.LanguageCode # "" /\ opts.LanguageCode # "auto"
                         THEN [kind |-> "ptr", value |-> opts.LanguageCode]
                         ELSE NilPtr)]

\* The JSON document ChutesProvider.Transcribe posts: the audio, turned
\* into a WAV file first when it is PCM, in base64, and the language.
ChutesRequest(audioData, opts) ==
    LET wavData == IF opts.Metadata.Format = AudioFormatPCMLE16
                   THEN PcmToWav(audioData, opts.Metadata.SampleRate,
                                 opts.Metadata.Channels,
                                 opts.Metadata.BitsPerSample).data
                   ELSE audioData
    IN  [kind |-> "json",
         url |-> "https://chutes-whisper-large-v3.chutes.ai/transcribe",
         body |-> ChutesBody(EncodeToString(wavData),
                             IF opts.LanguageCode # "" /\ opts.LanguageCode # "auto"
                             THEN [kind |-> "ptr", value |-> opts.LanguageCode]
                             ELSE NilPtr)]

ChutesFinishUntrimmed(net) ==
    IF net.kind = "fail"
    THEN Return(NilResult, ErrNetworkFailure("Chutes"))
    ELSE LET body == ReadAll(net) IN
         IF body.err
         THEN Return(NilResult, ErrReadFailed("Chutes"))
         ELSE IF net.status # StatusOK
         THEN Return(NilResult, ErrNonOKStatus("Chutes", net.status, body.data))
         ELSE LET d == ChutesDecode(body.data) IN
              IF d.err
              THEN Return(NilResult, ErrResponseDecodeFailed("Chutes"))
              ELSE Return(TranscriptionResult(ConcatSegments(d.segments), ""), NilErr)

\* The part of ChutesProvider.Transcribe from client.Do on: the body is read
\* first, and only then is the status looked at.
ChutesFinish(net) ==
    IF net.kind = "fail"
    THEN Return(NilResult, ErrNetworkFailure("Chutes"))
    ELSE LET body == ReadAll(net) IN
         IF body.err
         THEN Return(NilResult, ErrReadFailed("Chutes"))
         ELSE IF net.status # StatusOK
         THEN Return(NilResult, ErrNonOKStatus("Chutes", net.status, body.data))
         ELSE LET d == ChutesDecode(body.data) IN
              IF d.err
              THEN Return(NilResult, ErrResponseDecodeFailed("Chutes"))
              ELSE Return(TranscriptionResult(TrimSpace(ConcatSegments(d.segments)), ""),
                          NilErr)

\* ------------------------------------------------------------ the interface
\* How many times a provider's Transcribe runs client.Do: once, unless it
\* returned before it (early is the error it returned with, or NilErr).
ClientDoCalls(early) == IF early = NilErr THEN 1 ELSE 0

ProviderKinds == {"elevenlabs", "chutes"}

\* TranscriptionProvider.Transcribe, dispatched on the concrete provider
ProviderPrepare(kind, opts) ==
    IF kind = "elevenlabs" THEN ElevenLabsPrepare(opts) ELSE ChutesPrepare(opts)

ProviderFinish(kind, net) ==
    IF kind = "elevenlabs" THEN ElevenLabsFinish(net) ELSE ChutesFinish(net)

\* the request a provider's Transcribe hands to client.Do
ProviderRequest(kind, audioData, opts) ==
    IF kind = "elevenlabs"
    THEN ElevenLabsRequest(audioData, opts)
    ELSE ChutesRequest(audioData, opts)

\* ------------------------------------------------------------ inputs
AudioFormats == {AudioFormatPCMLE16, AudioFormatWAV, "mp3"}

\* the options a caller passes to ProviderChain.Transcribe
OptsInputs ==
    { TranscriptionOptions("auto", f) : f \in AudioFormats }
        \cup { TranscriptionOptions("en", AudioFormatWAV) }

ConcOptsInputs ==
    { TranscriptionOptions("auto", AudioFormatPCMLE16), TranscriptionOptions("auto", "mp3") }

\* the options a caller passes to one provider's Transcribe
LanguageCodes == {"", "auto", "en"}
ProviderOptsInputs ==
    { TranscriptionOptions(l, f) : l \in LanguageCodes, f \in AudioFormats }

\* what the provider's endpoint may answer
ProviderNetOutcomes ==
    NetOutcomes \cup
        { Response(StatusOK, b, TRUE) :
            b \in { ObjPaddedBody, ObjEmptyTextBody, ObjNumberTextBody,
                    JsonEmptyObject, JsonNull, ArrPaddedBody, ArrEmptyBody,
                    ArrEmptyObjectBody, ArrNullBody, ArrNumberBody } }
        \cup { Response(201, ObjBody, TRUE), Response(201, ArrBody, TRUE),
               Response(204, ArrBody, FALSE) }

\* the arguments PcmToWav is called with
SampleRates == {16000, 44100}
ChannelCounts == {1, 2}
BitDepths == {8, 16}
WavInputs ==
    [pcmData : PcmInputs, sampleRate : SampleRates, channels : ChannelCounts,
     bitsPerSample : BitDepths]

\* NewProviderChain(providers...): any list of providers, the empty one too
ProviderLists ==
    UNION { [1..n -> ProviderKinds] : n \in 0..MaxProviders }

\* ------------------------------------------------------------ state
VARIABLES
    providers,  \* pc.providers, the chain's list, set by NewProviderChain
    args,       \* per call: the opts it was called with
    pc,         \* per call: "idle", "loop" (at the for), "http" (in client.Do), "done"
    i,          \* per frame: the loop index of the range loop (0-based)
    lastErr,    \* per frame: var lastErr error
    ret,        \* per call: what Transcribe returned
    attempts,   \* per call (history): the provider invocations of the call, in order
    rounds,     \* per call slot: how many calls were started in it
    prev,       \* per call slot (history): how the slot's previous call ended
    pcall,      \* one provider's Transcribe: the provider, audioData and opts
    ppc,        \* where that Transcribe is: "start", "http" (in client.Do), "done"
    preq,       \* the HTTP request it handed to client.Do
    pnet,       \* what client.Do came back with
    pout,       \* what that Transcribe returned
    wavIn,      \* the arguments of PcmToWav
    wavOuts,    \* what the calls of PcmToWav returned, in order
    wavPcm,     \* the caller's pcmData slice as it is after the calls
    wavRead,    \* what readWAVFile returned for a file holding the WAV bytes
    form,       \* the /speak request: its multipart form as the handler sees it
    spc,        \* where HandleSpeak is: "start", "call" (in provider.Transcribe), "done"
    speakCall,  \* the audioData and opts HandleSpeak passed to provider.Transcribe
    writes,     \* the responses written to re.Response, in order
    hret,       \* what HandleSpeak returned
    save,       \* the saveAudioToDatabase goroutine of the request
    records,    \* the records of the silence collection, in the order saved
    sseForm,    \* the request of the SSE /speak as handleSpeak sees it
    ssePc,      \* where handleSpeak is: "entry", the step it is about to take, "done"
    events,     \* the events sent on the stream, in order
    sseLocal,   \* handleSpeak's locals: wavData, record.Id and the result
    audioRecords, \* the records of the audio collection, in the order saved
    noteRecords, \* the records of the notes collection, in the order saved
    envVars,    \* main's envVars of the current startup
    epc,        \* where the OnServe hook is: "down", the Ensure call it is about to make, "serving", "failed"
    startups,   \* how many times the server was started
    ensureLog,  \* (history) what the Ensure calls of the current startup did
    collections, \* the names of the collections saved in the database, in order
    superusers, \* the records of the superusers collection, in the order saved
    rpc,        \* where recordAudio is: "entry", "select", "returned"
    rret,       \* what recordAudio returned
    gpc,        \* where the recording goroutine is
    gval,       \* the recording goroutine's pcmData or the error it is about to send
    kpc,        \* where the key goroutine is
    ctxDone,    \* whether ctx was cancelled
    timer       \* the timer of time.After: "armed", "fired"

chainVars == <<providers, args, pc, i, lastErr, ret, attempts, rounds, prev>>
provVars == <<pcall, ppc, preq, pnet, pout>>
wavVars == <<wavIn, wavOuts, wavPcm, wavRead>>
speakVars == <<form, spc, speakCall, writes, hret, save, records>>
sseVars == <<sseForm, ssePc, events, sseLocal, audioRecords, noteRecords>>
ensureVars == <<envVars, epc, startups, ensureLog, collections, superusers>>
cliVars == <<rpc, rret, gpc, gval, kpc, ctxDone, timer>>
vars == <<chainVars, provVars, wavVars, speakVars, sseVars, ensureVars, cliVars>>

NoArgs == [kind |-> "nil"]
NoRet == [kind |-> "none"]
NoNet == [kind |-> "none"]
NoPrev == [ok |-> FALSE, tried |-> 0]
NoReq == [kind |-> "none"]
NoCall == [kind |-> "none"]

\* ------------------------------------------------------------ the chain
ErrNoProviders == [kind |-> "NoProvidersConfigured"]

\* fmt.Errorf("provider %d failed: %w", i+1, err)
ErrProviderFailedZeroBased(idx, err) ==
    [kind |-> "ProviderFailed", ordinal |-> idx, cause |-> err]
ErrProviderFailed(idx, err) ==
    [kind |-> "ProviderFailed", ordinal |-> idx + 1, cause |-> err]

\* fmt.Errorf("all providers failed, last error: %w", lastErr)
ErrAllProvidersFailed(err) ==
    [kind |-> "AllProvidersFailed", cause |-> err]

\* if len(pc.providers) == 0
NoProvidersNeverChecked(ps) == FALSE
NoProviders(ps) == Len(ps) = 0

\* The locals i and lastErr live in the frame of the call: each call has its own.
FrameShared(c) == 1
Frame(c) == c

\* for i, provider := range pc.providers: the position in the list (from 1)
\* of the provider the loop hands out at index idx
PositionReversed(ps, idx) == Len(ps) - idx
Position(ps, idx) == idx + 1

\* The body of the range loop once provider idx has returned out: return on
\* the first success, else remember the error and go on to the next provider.
ChainIterationNoReturn(idx, last, out) ==
    IF out.err = NilErr
    THEN [pc |-> "loop", i |-> idx + 1, lastErr |-> last, ret |-> NoRet]
    ELSE [pc |-> "loop", i |-> idx + 1, lastErr |-> ErrProviderFailed(idx, out.err),
          ret |-> NoRet]
ChainIterationTrimmed(idx, last, out) ==
    IF out.err = NilErr
    THEN [pc |-> "done", i |-> idx, lastErr |-> last,
          ret |-> Return(TranscriptionResult(TrimSpace(out.result.Text),
                                             out.result.LanguageCode), NilErr)]
    ELSE [pc |-> "loop", i |-> idx + 1, lastErr |-> ErrProviderFailed(idx, out.err),
          ret |-> NoRet]
ChainIterationRetry(idx, last, out) ==
    IF out.err = NilErr
    THEN [pc |-> "done", i |-> idx, lastErr |-> last, ret |-> Return(out.result, NilErr)]
    ELSE [pc |-> "loop",
          i |-> IF last = NilErr \/ last.ordinal # idx + 1 THEN idx ELSE idx + 1,
          lastErr |-> ErrProviderFailed(idx, out.err), ret |-> NoRet]
ChainIterationSameProviderAgain(idx, last, out) ==
    IF out.err = NilErr
    THEN [pc |-> "done", i |-> idx, lastErr |-> last, ret |-> Return(out.result, NilErr)]
    ELSE [pc |-> "loop", i |-> idx, lastErr |-> ErrProviderFailed(idx, out.err),
          ret |-> NoRet]

ChainIteration(idx, last, out) ==
    IF out.err = NilErr
    THEN [pc |-> "done", i |-> idx, lastErr |-> last, ret |-> Return(out.result, NilErr)]
    ELSE [pc |-> "loop", i |-> idx + 1, lastErr |-> ErrProviderFailed(idx, out.err),
          ret |-> NoRet]

Attempt(idx, state, net, out, reqs) ==
    [idx |-> idx, state |-> state, net |-> net, out |-> out, reqs |-> reqs]

Outcome(out) == IF out.err = NilErr THEN "ok" ELSE "failed"

\* how a finished call is remembered when its slot takes the next call
Summary(c) ==
    IF pc[c] = "done"
    THEN [ok |-> ret[c].err = NilErr, tried |-> Len(attempts[c])]
    ELSE NoPrev

\* ProviderChain.Transcribe is called: the empty chain fails at once,
\* otherwise the range loop starts at the first provider.
ChainTranscribeSticky(c, optsSet) ==
    /\ pc[c] \in {"idle", "done"}
    /\ rounds[c] < MaxRounds
    /\ \E opts \in optsSet :
         /\ args' = [args EXCEPT ![c] = opts]
         /\ rounds' = [rounds EXCEPT ![c] = @ + 1]
         /\ prev' = [prev EXCEPT ![c] = Summary(c)]
         /\ attempts' = [attempts EXCEPT ![c] = <<>>]
         /\ IF NoProviders(providers)
            THEN /\ pc' = [pc EXCEPT ![c] = "done"]
                 /\ ret' = [ret EXCEPT ![c] = Return(NilResult, ErrNoProviders)]
                 /\ i' = [i EXCEPT ![Frame(c)] = 0]
                 /\ lastErr' = [lastErr EXCEPT ![Frame(c)] = NilErr]
            ELSE /\ pc' = [pc EXCEPT ![c] = "loop"]
                 /\ ret' = [ret EXCEPT ![c] = NoRet]
                 /\ i' = [i EXCEPT ![Frame(c)] =
                            IF Summary(c).ok THEN Summary(c).tried - 1 ELSE 0]
                 /\ lastErr' = [lastErr EXCEPT ![Frame(c)] = NilErr]
    /\ UNCHANGED providers
    /\ UNCHANGED <<provVars, wavVars, speakVars, sseVars, ensureVars, cliVars>>

ChainTranscribe(c, optsSet) ==
    /\ pc[c] \in {"idle", "done"}
    /\ rounds[c] < MaxRounds
    /\ \E opts \in optsSet :
         /\ args' = [args EXCEPT ![c] = opts]
         /\ rounds' = [rounds EXCEPT ![c] = @ + 1]
         /\ prev' = [prev EXCEPT ![c] = Summary(c)]
         /\ attempts' = [attempts EXCEPT ![c] = <<>>]
         /\ IF NoProviders(providers)
            THEN /\ pc' = [pc EXCEPT ![c] = "done"]
                 /\ ret' = [ret EXCEPT ![c] = Return(NilResult, ErrNoProviders)]
                 /\ i' = [i EXCEPT ![Frame(c)] = 0]
                 /\ lastErr' = [lastErr EXCEPT ![Frame(c)] = NilErr]
            ELSE /\ pc' = [pc EXCEPT ![c] = "loop"]
                 /\ ret' = [ret EXCEPT ![c] = NoRet]
                 /\ i' = [i EXCEPT ![Frame(c)] = 0]
                 /\ lastErr' = [lastErr EXCEPT ![Frame(c)] = NilErr]
    /\ UNCHANGED providers
    /\ UNCHANGED <<provVars, wavVars, speakVars, sseVars, ensureVars, cliVars>>

\* The loop invokes provider i: provider.Transcribe(audioData, opts) runs up
\* to its client.Do, or returns an error before any request is made.
ProviderCall(c) ==
    /\ pc[c] = "loop"
    /\ i[Frame(c)] < Len(providers)
    /\ LET idx == i[Frame(c)]
           pos == Position(providers, idx)
           early == ProviderPrepare(providers[pos], args[c])
           out == Return(NilResult, early)
           step == ChainIteration(idx, lastErr[Frame(c)], out)
       IN  IF early = NilErr
           THEN /\ pc' = [pc EXCEPT ![c] = "http"]
                /\ attempts' = [attempts EXCEPT ![c] =
                                  Append(@, Attempt(pos - 1, "running", NoNet, out,
                                                    ClientDoCalls(early)))]
                /\ UNCHANGED <<i, lastErr, ret>>
           ELSE /\ pc' = [pc EXCEPT ![c] = step.pc]
                /\ i' = [i EXCEPT ![Frame(c)] = step.i]
                /\ lastErr' = [lastErr EXCEPT ![Frame(c)] = step.lastErr]
                /\ ret' = [ret EXCEPT ![c] = step.ret]
                /\ attempts' = [attempts EXCEPT ![c] =
                                  Append(@, Attempt(pos - 1, Outcome(out), NoNet, out,
                                                    ClientDoCalls(early)))]
    /\ UNCHANGED <<providers, args, rounds, prev>>
    /\ UNCHANGED <<provVars, wavVars, speakVars, sseVars, ensureVars, cliVars>>

\* client.Do returns: the provider turns the network's answer into its
\* (result, error) and the loop body acts on it.
ProviderReturn(c, nets) ==
    /\ pc[c] = "http"
    /\ \E net \in nets :
         LET n == Len(attempts[c])
             out == ProviderFinish(providers[attempts[c][n].idx + 1], net)
             step == ChainIteration(i[Frame(c)], lastErr[Frame(c)], out)
         IN  /\ pc' = [pc EXCEPT ![c] = step.pc]
             /\ i' = [i EXCEPT ![Frame(c)] = step.i]
             /\ lastErr' = [lastErr EXCEPT ![Frame(c)] = step.lastErr]
             /\ ret' = [ret EXCEPT ![c] = step.ret]
             /\ attempts' = [attempts EXCEPT ![c][n] =
                               Attempt(@.idx, Outcome(out), net, out, @.reqs)]
    /\ UNCHANGED <<providers, args, rounds, prev>>
    /\ UNCHANGED <<provVars, wavVars, speakVars, sseVars, ensureVars, cliVars>>

\* The range loop is over: every provider failed.
ChainExhausted(c) ==
    /\ pc[c] = "loop"
    /\ i[Frame(c)] >= Len(providers)
    /\ pc' = [pc EXCEPT ![c] = "done"]
    /\ ret' = [ret EXCEPT ![c] =
                 Return(NilResult, ErrAllProvidersFailed(lastErr[Frame(c)]))]
    /\ UNCHANGED <<providers, args, i, lastErr, attempts, rounds, prev>>
    /\ UNCHANGED <<provVars, wavVars, speakVars, sseVars, ensureVars, cliVars>>

\* ------------------------------------------------------------ one provider
\* A provider's Transcribe(audioData, opts) runs up to its client.Do and
\* hands it the request, or returns an error before any request is made.
TranscribeRequest ==
    /\ ppc = "start"
    /\ LET early == ProviderPrepare(pcall.kind, pcall.opts) IN
       IF early = NilErr
       THEN /\ preq' = ProviderRequest(pcall.kind, pcall.audioData, pcall.opts)
            /\ ppc' = "http"
            /\ pout' = pout
       ELSE /\ preq' = preq
            /\ ppc' = "done"
            /\ pout' = Return(NilResult, early)
    /\ UNCHANGED <<pcall, pnet, chainVars, wavVars, speakVars, sseVars, ensureVars, cliVars>>

\* client.Do returns and Transcribe turns the answer into (result, error).
TranscribeResponse ==
    /\ ppc = "http"
    /\ \E net \in ProviderNetOutcomes :
         /\ pnet' = net
         /\ pout' = ProviderFinish(pcall.kind, net)
    /\ ppc' = "done"
    /\ UNCHANGED <<pcall, preq, chainVars, wavVars, speakVars, sseVars, ensureVars, cliVars>>

\* ------------------------------------------------------------ WAV files
\* PcmToWav is called with the caller's slice; it only reads it.
PcmToWavCall ==
    /\ Len(wavOuts) < MaxWavCalls
    /\ wavOuts' = Append(wavOuts, PcmToWav(wavPcm, wavIn.sampleRate, wavIn.channels,
                                          wavIn.bitsPerSample))
    /\ UNCHANGED <<wavIn, wavPcm, wavRead, chainVars, provVars, speakVars, sseVars, ensureVars, cliVars>>

\* readWAVFile on a file that holds what PcmToWav returned, or on a file
\* that holds the bare samples.
ReadWAVFileCall ==
    /\ wavRead = NoRet
    /\ \E file \in {wavOuts[k].data : k \in DOMAIN wavOuts} \cup {wavPcm} :
         wavRead' = [file |-> file, out |-> ReadWAVFile(file)]
    /\ UNCHANGED <<wavIn, wavOuts, wavPcm, chainVars, provVars, speakVars, sseVars, ensureVars, cliVars>>

\* ------------------------------------------------------------ /speak
\* the multipart form of a request: whether it parses, whether it has the
\* audio part, the two optional values ("" when absent), the bytes of the
\* audio part and whether reading them succeeds
SpeakForms ==
    [parseOK : BOOLEAN, hasAudio : BOOLEAN, language_code : {"", "en"},
     file_format : {""} \cup AudioFormats, audio : PcmInputs, readOK : BOOLEAN]

\* time.Now().Unix() at the moment a payload is built
Times == {1700000000, 1700000001}

NoSave == [state |-> "none"]

\* calculateAudioLength(dataSize): seconds at 16 kHz mono 16 bits, rounded up
CalculateAudioLength(dataSize) ==
    LET bytesPerSample == 16 \div 8
        totalSamples == dataSize \div (bytesPerSample * 1)
    IN  (totalSamples + 15999) \div 16000

\* sendJSONError(re, message): status 400 with {error, timestamp}; cause is
\* the error formatted into the message, if any.  json.Marshal of a string
\* and an int64 cannot fail, so the status 500 branch is never taken.
SendJSONError(message, cause, now) ==
    [status |-> 400,
     payload |-> [error |-> [message |-> message, cause |-> cause], timestamp |-> now]]

SpeakRejectionNoEmptyCheck(f) ==
    IF ~f.parseOK THEN "Invalid multipart form"
    ELSE IF ~f.hasAudio THEN "audio file is required"
    ELSE IF ~f.readOK THEN "Failed to read audio file"
    ELSE ""

\* The checks of HandleSpeak before the provider is called: the message it
\* answers with, or "" when the request passes them.
SpeakRejection(f) ==
    IF ~f.parseOK THEN "Invalid multipart form"
    ELSE IF ~f.hasAudio THEN "audio file is required"
    ELSE IF ~f.readOK THEN "Failed to read audio file"
    ELSE IF Len(f.audio) = 0 THEN "audio file is empty"
    ELSE ""

\* the opts HandleSpeak builds from the form, with its two defaults
SpeakOptionsKeepEmpty(f) ==
    [LanguageCode |-> f.language_code, Metadata |-> AudioMetadata(f.file_format)]

SpeakOptions(f) ==
    [LanguageCode |-> IF f.language_code = "" THEN "auto" ELSE f.language_code,
     Metadata |-> AudioMetadata(IF f.file_format = ""
                                THEN "pcm_s16le_16"
                                ELSE f.file_format)]

SpeakResponseIgnoresError(out, audioData, now) ==
    [status |-> 200,
     payload |-> [text |-> IF out.err # NilErr THEN <<>> ELSE out.result.Text,
                  language_code |-> IF out.err # NilErr THEN "" ELSE out.result.LanguageCode,
                  audio_length |-> CalculateAudioLength(Len(audioData)),
                  timestamp |-> now]]

\* What HandleSpeak writes once provider.Transcribe has returned out: the
\* error payload, or status 200 with the transcription.
SpeakResponse(out, audioData, now) ==
    IF out.err # NilErr
    THEN SendJSONError("Failed to transcribe audio", out.err, now)
    ELSE [status |-> 200,
          payload |-> [text |-> out.result.Text,
                       language_code |-> out.result.LanguageCode,
                       audio_length |-> CalculateAudioLength(Len(audioData)),
                       timestamp |-> now]]

\* HandleSpeak from its start to the call of provider.Transcribe: a request
\* that fails a check is answered and the handler returns nil.
HandleSpeak ==
    /\ spc = "start"
    /\ IF SpeakRejection(form) # ""
       THEN /\ \E now \in Times :
                 writes' = Append(writes, SendJSONError(SpeakRejection(form), NilErr, now))
            /\ spc' = "done"
            /\ hret' = NilErr
            /\ speakCall' = speakCall
       ELSE /\ spc' = "call"
            /\ speakCall' = [audioData |-> form.audio, opts |-> SpeakOptions(form)]
            /\ UNCHANGED <<writes, hret>>
    /\ UNCHANGED <<form, save, records, chainVars, provVars, wavVars, sseVars, ensureVars, cliVars>>

\* provider.Transcribe(audioData, opts): the provider is the chain
SpeakTranscribe ==
    /\ spc = "call"
    /\ pc[1] = "idle"
    /\ ChainTranscribe(1, {speakCall.opts})

\* HandleSpeak from the return of provider.Transcribe on: one response is
\* written, after a success the save goroutine is started, and the handler
\* returns nil.
SpeakRespond ==
    /\ spc = "call"
    /\ pc[1] = "done"
    /\ \E now \in Times :
         writes' = Append(writes, SpeakResponse(ret[1], speakCall.audioData, now))
    /\ save' = IF ret[1].err # NilErr
               THEN save
               ELSE [state |-> "spawned", audioData |-> speakCall.audioData,
                     transcriptionText |-> ret[1].result.Text]
    /\ spc' = "done"
    /\ hret' = NilErr
    /\ UNCHANGED <<form, speakCall, records, chainVars, provVars, wavVars, sseVars, ensureVars, cliVars>>

\* what CompressAudio (ffmpeg) makes of the audio, and its base64 text
CompressAudio(audioData) == [codec |-> "ogg", of |-> audioData]
Base64Of(data) == [encoding |-> "base64", of |-> data]

\* the ways the goroutine can end: the three early returns and the save
SaveOutcomes == {"compress failed", "collection not found", "save failed", "saved"}

SaveAudioToDatabaseTwice ==
    /\ save.state = "spawned"
    /\ \E outcome \in SaveOutcomes :
         /\ save' = [save EXCEPT !.state = outcome]
         /\ records' = IF outcome = "saved"
                       THEN records \o
                              << [audio |-> Base64Of(CompressAudio(save.audioData)),
                                  result |-> save.transcriptionText],
                                 [audio |-> Base64Of(CompressAudio(save.audioData)),
                                  result |-> save.transcriptionText] >>
                       ELSE records
    /\ UNCHANGED <<form, spc, speakCall, writes, hret, chainVars, provVars, wavVars, sseVars, ensureVars, cliVars>>

SaveAudioToDatabaseReportsFailure ==
    /\ save.state = "spawned"
    /\ \E outcome \in SaveOutcomes :
         /\ save' = [save EXCEPT !.state = outcome]
         /\ records' = IF outcome = "saved"
                       THEN Append(records,
                                   [audio |-> Base64Of(CompressAudio(save.audioData)),
                                    result |-> save.transcriptionText])
                       ELSE records
         /\ writes' = IF outcome = "saved"
                      THEN writes
                      ELSE Append(writes, SendJSONError(outcome, NilErr, 1700000000))
    /\ UNCHANGED <<form, spc, speakCall, hret, chainVars, provVars, wavVars, sseVars, ensureVars, cliVars>>

\* go saveAudioToDatabase(app, audioData, result.Text): compress, find the
\* collection, save one record; each step may fail and end the goroutine.
SaveAudioToDatabase ==
    /\ save.state = "spawned"
    /\ \E outcome \in SaveOutcomes :
         /\ save' = [save EXCEPT !.state = outcome]
         /\ records' = IF outcome = "saved"
                       THEN Append(records,
                                   [audio |-> Base64Of(CompressAudio(save.audioData)),
                                    result |-> save.transcriptionText])
                       ELSE records
    /\ UNCHANGED <<form, spc, speakCall, writes, hret, chainVars, provVars, wavVars, sseVars, ensureVars, cliVars>>

\* ------------------------------------------------------------ /speak, with the JSON path
\* The earlier HandleSpeak takes a WAV upload as multipart form or, with
\* Content-Type application/json, PCM bytes in pcm_data.  Its provider takes
\* WAV bytes only and treats the answer as the later one does for the wav
\* format with the language left to detection.
SpeakFormsV1 ==
    [contentType : {"application/json"}, decodeOK : BOOLEAN, pcm_data : PcmInputs]
        \cup
    [contentType : {"multipart/form-data"}, parseOK : BOOLEAN, hasAudio : BOOLEAN,
     audio : PcmInputs, readOK : BOOLEAN]

IsJSONRequest(f) == f.contentType = "application/json"

\* the checks of the earlier HandleSpeak and of handleJSONRequest before
\* the provider is called
SpeakRejectionV1(f) ==
    IF IsJSONRequest(f)
    THEN IF ~f.decodeOK THEN "Failed to decode audio transcription request"
         ELSE IF Len(f.pcm_data) = 0 THEN "pcm_data is required"
         ELSE ""
    ELSE IF ~f.parseOK THEN "Invalid multipart form"
    ELSE IF ~f.hasAudio THEN "audio file is required"
    ELSE IF ~f.readOK THEN "Failed to read audio file"
    ELSE IF Len(f.audio) = 0 THEN "audio file is empty"
    ELSE ""

\* the WAV bytes handed to provider.Transcribe(wavData)
SpeakWavDataV1(f) ==
    IF IsJSONRequest(f) THEN PcmToWav(f.pcm_data, 16000, 1, 16).data ELSE f.audio

\* audio_length: from the PCM bytes, or from the upload less its header
SpeakAudioLengthV1(f) ==
    IF IsJSONRequest(f)
    THEN CalculateAudioLength(Len(f.pcm_data))
    ELSE CalculateAudioLength(IF Len(f.audio) - 44 < 0 THEN 0 ELSE Len(f.audio) - 44)

\* what is written once provider.Transcribe has returned out
SpeakResponseV1(out, f, now) ==
    IF out.err # NilErr
    THEN SendJSONError("Failed to transcribe audio", out.err, now)
    ELSE [status |-> 200,
          payload |-> [text |-> out.result.Text,
                       audio_length |-> SpeakAudioLengthV1(f),
                       timestamp |-> now]]

\* whether the handler starts saveAudioToDatabase after the response
SpeakSavesAlways(out, f) == out.err = NilErr

SpeakSavesV1(out, f) == out.err = NilErr /\ ~IsJSONRequest(f)

HandleSpeakV1 ==
    /\ spc = "start v1"
    /\ IF SpeakRejectionV1(form) # ""
       THEN /\ \E now \in Times :
                 writes' = Append(writes, SendJSONError(SpeakRejectionV1(form), NilErr, now))
            /\ spc' = "done"
            /\ hret' = NilErr
            /\ speakCall' = speakCall
       ELSE /\ spc' = "call v1"
            /\ speakCall' = [audioData |-> SpeakWavDataV1(form),
                             opts |-> TranscriptionOptions("auto", AudioFormatWAV)]
            /\ UNCHANGED <<writes, hret>>
    /\ UNCHANGED <<form, save, records, chainVars, provVars, wavVars, sseVars, ensureVars, cliVars>>

SpeakTranscribeV1 ==
    /\ spc = "call v1"
    /\ pc[1] = "idle"
    /\ ChainTranscribe(1, {speakCall.opts})

SpeakRespondV1 ==
    /\ spc = "call v1"
    /\ pc[1] = "done"
    /\ \E now \in Times :
         writes' = Append(writes, SpeakResponseV1(ret[1], form, now))
    /\ save' = IF SpeakSavesV1(ret[1], form)
               THEN [state |-> "spawned", audioData |-> speakCall.audioData,
                     transcriptionText |-> ret[1].result.Text]
               ELSE save
    /\ spc' = "done"
    /\ hret' = NilErr
    /\ UNCHANGED <<form, speakCall, records, chainVars, provVars, wavVars, sseVars, ensureVars, cliVars>>

\* ------------------------------------------------------------ specifications
ChainInit ==
    /\ providers \in ProviderLists
    /\ args = [c \in Calls |-> NoArgs]
    /\ pc = [c \in Calls |-> "idle"]
    /\ i = [c \in Calls |-> 0]
    /\ lastErr = [c \in Calls |-> NilErr]
    /\ ret = [c \in Calls |-> NoRet]
    /\ attempts = [c \in Calls |-> <<>>]
    /\ rounds = [c \in Calls |-> 0]
    /\ prev = [c \in Calls |-> NoPrev]

\* no chain is under test
ChainIdle ==
    /\ providers = <<>>
    /\ args = [c \in Calls |-> NoArgs]
    /\ pc = [c \in Calls |-> "idle"]
    /\ i = [c \in Calls |-> 0]
    /\ lastErr = [c \in Calls |-> NilErr]
    /\ ret = [c \in Calls |-> NoRet]
    /\ attempts = [c \in Calls |-> <<>>]
    /\ rounds = [c \in Calls |-> 0]
    /\ prev = [c \in Calls |-> NoPrev]

ProviderInit ==
    /\ pcall \in [kind : ProviderKinds, audioData : PcmInputs, opts : ProviderOptsInputs]
    /\ ppc = "start"
    /\ preq = NoReq
    /\ pnet = NoNet
    /\ pout = NoRet

ProviderIdle ==
    /\ pcall = NoCall
    /\ ppc = "idle"
    /\ preq = NoReq
    /\ pnet = NoNet
    /\ pout = NoRet

WavInit ==
    /\ wavIn \in WavInputs
    /\ wavOuts = <<>>
    /\ wavPcm = wavIn.pcmData
    /\ wavRead = NoRet

WavIdle ==
    /\ wavIn = NoCall
    /\ wavOuts = <<>>
    /\ wavPcm = <<>>
    /\ wavRead = NoRet

\* the chain main builds and hands to routes.Setup: ElevenLabs alone
MainChain == <<"elevenlabs">>

ChainMain ==
    /\ providers = MainChain
    /\ args = [c \in Calls |-> NoArgs]
    /\ pc = [c \in Calls |-> "idle"]
    /\ i = [c \in Calls |-> 0]
    /\ lastErr = [c \in Calls |-> NilErr]
    /\ ret = [c \in Calls |-> NoRet]
    /\ attempts = [c \in Calls |-> <<>>]
    /\ rounds = [c \in Calls |-> 0]
    /\ prev = [c \in Calls |-> NoPrev]

\* ------------------------------------------------------------ the SSE /speak
\* main.go handleSpeak: the handler that answers with a stream of events
JSONContentType == "application/json"
MultipartContentType == "multipart/form-data"

\* what handleSpeak sees of a request: the JSON body or the multipart form
SSEForms ==
    [contentType : {JSONContentType}, decodeOK : BOOLEAN, pcm_data : PcmInputs]
    \cup
    [contentType : {MultipartContentType}, parseOK : BOOLEAN, hasAudio : BOOLEAN,
     audio : PcmInputs, readOK : BOOLEAN]

\* how a lookup of a collection followed by app.Save can end
StoreOutcomes == {"collection not found", "save failed", "saved"}

\* the legacy client's errors are fmt.Errorf strings
LegacyErr(message) == [kind |-> "errorString", message |-> message]

\* TranscribeWAV(wavData, apiKey), given what client.Do came back with
TranscribeWAV(wavData, net) ==
    IF net.kind = "fail"
    THEN Return(NilResult, LegacyErr("failed to call ElevenLabs API"))
    ELSE IF net.status # StatusOK
    THEN Return(NilResult, LegacyErr("ElevenLabs API error"))
    ELSE LET d == ElevenLabsDecode(ReadAll(net).data) IN
         IF d.err
         THEN Return(NilResult, LegacyErr("failed to decode ElevenLabs response"))
         ELSE Return([Text |-> d.Text, LanguageCode |-> d.LanguageCode], NilErr)

\* TranscribePCM(pcmData, apiKey): pcmToWav at 16000/1/16, then TranscribeWAV
TranscribePCM(pcmData, net) ==
    TranscribeWAV(PcmToWav(pcmData, 16000, 1, 16).data, net)

\* fmt.Sprintf("...: %v", err)
Sprintf(format, err) == [format |-> format, err |-> err]

\* the error of env.CompressAudio
CompressFailed == [kind |-> "compress failed"]

\* sendSSEEvent(w, event, data): one event written to the stream and flushed
SSEEvent(event, data) == [event |-> event, data |-> data]

sendSSEEvent(event, data, now) ==
    events' = Append(events, SSEEvent(event, data @@ [timestamp |-> now]))

\* sendSSEError(w, message): the event named error
sendSSEError(message, now) ==
    sendSSEEvent("error", [error |-> message], now)

SSEFailTwice(message, now) ==
    /\ events' = events \o << SSEEvent("error", [error |-> message, timestamp |-> now]),
                              SSEEvent("error", [error |-> message, timestamp |-> now]) >>
    /\ ssePc' = "done"

\* an early return of handleSpeak: the error event, then return
SSEFail(message, now) ==
    /\ sendSSEError(message, now)
    /\ ssePc' = "done"

\* handleSpeak's locals before they are assigned
NoSSELocal == [wavData |-> <<>>, recordId |-> 0, result |-> NilResult]

\* the audio of a request served earlier, already in the audio collection
EarlierAudio == <<255, 0>>

\* the id PocketBase gives a new record of a collection
NewId(store) == Len(store) + 1

\* handleSpeak up to the dispatch on the content type
SSEStart ==
    /\ ssePc = "entry"
    /\ \E now \in Times :
        sendSSEEvent("start", [message |-> "Starting audio processing"], now)
    /\ ssePc' = IF sseForm.contentType = JSONContentType THEN "decode" ELSE "parse"
    /\ UNCHANGED <<sseForm, sseLocal, audioRecords, noteRecords>>
    /\ UNCHANGED <<chainVars, provVars, wavVars, speakVars, ensureVars, cliVars>>

\* the JSON branch up to the call of TranscribePCM
SSEDecodeJSON ==
    /\ ssePc = "decode"
    /\ \E now \in Times :
        IF ~sseForm.decodeOK
        THEN SSEFail("Failed to decode audio transcription request", now)
        ELSE IF Len(sseForm.pcm_data) = 0
        THEN SSEFail("pcm_data is required", now)
        ELSE /\ sendSSEEvent("processing", [message |-> "Processing PCM audio data"], now)
             /\ ssePc' = "transcribe pcm"
    /\ UNCHANGED <<sseForm, sseLocal, audioRecords, noteRecords>>
    /\ UNCHANGED <<chainVars, provVars, wavVars, speakVars, ensureVars, cliVars>>

\* the JSON branch from the return of TranscribePCM to the end
SSETranscribePCM ==
    /\ ssePc = "transcribe pcm"
    /\ \E net \in NetOutcomes, now \in Times, later \in Times :
        LET out == TranscribePCM(sseForm.pcm_data, net) IN
        /\ now <= later
        /\ IF out.err # NilErr
           THEN /\ SSEFail(Sprintf("Failed to transcribe audio", out.err), now)
                /\ UNCHANGED sseLocal
           ELSE /\ events' = events \o
                    << SSEEvent("transcribed",
                           [text |-> out.result.Text, timestamp |-> now]),
                       SSEEvent("complete",
                           [result |-> out.result, timestamp |-> later]) >>
                /\ ssePc' = "done"
                /\ sseLocal' = [sseLocal EXCEPT !.result = out.result]
    /\ UNCHANGED <<sseForm, audioRecords, noteRecords>>
    /\ UNCHANGED <<chainVars, provVars, wavVars, speakVars, ensureVars, cliVars>>

\* the multipart branch up to io.ReadAll of the audio file
SSEParseForm ==
    /\ ssePc = "parse"
    /\ \E now \in Times :
        IF ~sseForm.parseOK
        THEN SSEFail("Invalid multipart form", now)
        ELSE IF ~sseForm.hasAudio
        THEN SSEFail("audio file is required", now)
        ELSE /\ sendSSEEvent("processing", [message |-> "Reading audio file"], now)
             /\ ssePc' = "read"
    /\ UNCHANGED <<sseForm, sseLocal, audioRecords, noteRecords>>
    /\ UNCHANGED <<chainVars, provVars, wavVars, speakVars, ensureVars, cliVars>>

\* io.ReadAll(file) and the check of its length
SSEReadAudio ==
    /\ ssePc = "read"
    /\ \E now \in Times :
        IF ~sseForm.readOK
        THEN /\ SSEFail("Failed to read audio file", now)
             /\ UNCHANGED sseLocal
        ELSE IF Len(sseForm.audio) = 0
        THEN /\ SSEFail("audio file is empty", now)
             /\ UNCHANGED sseLocal
        ELSE /\ sendSSEEvent("compressing",
                    [message |-> "Compressing audio data",
                     original_size |-> Len(sseForm.audio)], now)
             /\ ssePc' = "compress"
             /\ sseLocal' = [sseLocal EXCEPT !.wavData = sseForm.audio]
    /\ UNCHANGED <<sseForm, audioRecords, noteRecords>>
    /\ UNCHANGED <<chainVars, provVars, wavVars, speakVars, ensureVars, cliVars>>

\* env.CompressAudio(wavData)
SSECompress ==
    /\ ssePc = "compress"
    /\ \E ok \in BOOLEAN, now \in Times :
        IF ~ok
        THEN SSEFail(Sprintf("Failed to compress audio", CompressFailed), now)
        ELSE /\ sendSSEEvent("saving", [message |-> "Saving compressed audio to database"], now)
             /\ ssePc' = "save"
    /\ UNCHANGED <<sseForm, sseLocal, audioRecords, noteRecords>>
    /\ UNCHANGED <<chainVars, provVars, wavVars, speakVars, ensureVars, cliVars>>

\* the record of the audio collection handleSpeak builds
AudioRecord(id, wavData) ==
    [id |-> id, data |-> Base64Of(CompressAudio(wavData)),
     original_size |-> Len(wavData)]

\* the audio collection looked up and the record saved
SSESaveAudio ==
    /\ ssePc = "save"
    /\ \E outcome \in StoreOutcomes, now \in Times :
        LET id == NewId(audioRecords) IN
        /\ audioRecords' =
              IF outcome = "saved"
              THEN Append(audioRecords, AudioRecord(id, sseLocal.wavData))
              ELSE audioRecords
        /\ IF outcome = "collection not found"
           THEN /\ SSEFail("Failed to find audio collection", now)
                /\ UNCHANGED sseLocal
           ELSE IF outcome = "save failed"
           THEN /\ SSEFail("Failed to save audio to database", now)
                /\ UNCHANGED sseLocal
           ELSE /\ sendSSEEvent("transcribing",
                       [message |-> "Transcribing audio", audio_id |-> id], now)
                /\ ssePc' = "transcribe"
                /\ sseLocal' = [sseLocal EXCEPT !.recordId = id]
    /\ UNCHANGED <<sseForm, noteRecords>>
    /\ UNCHANGED <<chainVars, provVars, wavVars, speakVars, ensureVars, cliVars>>

\* transcription.TranscribeWAV(wavData, apiKey) and the check of its error
SSETranscribeWAV ==
    /\ ssePc = "transcribe"
    /\ \E net \in NetOutcomes, now \in Times :
        LET out == TranscribeWAV(sseLocal.wavData, net) IN
        IF out.err # NilErr
        THEN /\ SSEFail(Sprintf("Failed to transcribe audio", out.err), now)
             /\ UNCHANGED sseLocal
        ELSE /\ ssePc' = "note"
             /\ sseLocal' = [sseLocal EXCEPT !.result = out.result]
             /\ UNCHANGED events
    /\ UNCHANGED <<sseForm, audioRecords, noteRecords>>
    /\ UNCHANGED <<chainVars, provVars, wavVars, speakVars, ensureVars, cliVars>>

NoteRecordOfNewestAudio(id, result, audioId) ==
    [id |-> id, title |-> result.Text, content |-> "", audio_id |-> audioId + 1]

\* the record of the notes collection handleSpeak builds
NoteRecord(id, result, audioId) ==
    [id |-> id, title |-> result.Text, content |-> "", audio_id |-> audioId]

\* the notes collection looked up, the note saved, and the last event
SSECreateNote ==
    /\ ssePc = "note"
    /\ \E outcome \in StoreOutcomes, now \in Times :
        LET id == NewId(noteRecords) IN
        IF outcome = "collection not found"
        THEN /\ SSEFail("Failed to find notes collection", now)
             /\ UNCHANGED noteRecords
        ELSE IF outcome = "save failed"
        THEN /\ SSEFail("Failed to create note", now)
             /\ UNCHANGED noteRecords
        ELSE /\ noteRecords' =
                    Append(noteRecords, NoteRecord(id, sseLocal.result, sseLocal.recordId))
             /\ sendSSEEvent("complete",
                    [note_id |-> id, audio_id |-> sseLocal.recordId,
                     transcribed_text |-> sseLocal.result.Text,
                     result |-> NoteRecord(id, sseLocal.result, sseLocal.recordId)], now)
             /\ ssePc' = "done"
    /\ UNCHANGED <<sseForm, sseLocal, audioRecords>>
    /\ UNCHANGED <<chainVars, provVars, wavVars, speakVars, ensureVars, cliVars>>

SSEInit ==
    /\ sseForm \in SSEForms
    /\ ssePc = "entry"
    /\ events = <<>>
    /\ sseLocal = NoSSELocal
    /\ audioRecords \in {<<>>, <<AudioRecord(NewId(<<>>), EarlierAudio)>>}
    /\ noteRecords = <<>>

SSEIdle ==
    /\ sseForm = NoCall
    /\ ssePc = "idle"
    /\ events = <<>>
    /\ sseLocal = NoSSELocal
    /\ audioRecords = <<>>
    /\ noteRecords = <<>>

\* ------------------------------------------------------------ startup
\* main's OnServe hook: EnsureSuperuser, EnsureSilenceCollection and
\* EnsureAppsCollection on the application's database, startup after startup
Emails == {"", "admin@silence.local", "other@silence.local"}
Passwords == {"", "secret"}

\* env.Load(): SILENCE_EMAIL and SILENCE_PASSWORD of one startup
EnvInputs == [SilenceEmail : Emails, SilencePassword : Passwords]
NoEnv == [SilenceEmail |-> "", SilencePassword |-> ""]

SaveFailed == [kind |-> "save failed"]
CollectionNotFound == [kind |-> "collection not found"]

\* how many times a value occurs in a sequence
Count(seq, v) == Cardinality({ k \in 1..Len(seq) : seq[k] = v })

FindCollectionByNameOrIdNeverFinds(cols, name) == [err |-> TRUE]

\* app.FindCollectionByNameOrId(name): the error is nil when the database
\* has a collection of that name
FindCollectionByNameOrId(cols, name) == [err |-> Count(cols, name) = 0]

FindAuthRecordByEmailNeverFinds(users, email) == [found |-> FALSE]

\* app.FindAuthRecordByEmail(superusers, email): err == nil && record != nil
FindAuthRecordByEmail(users, email) ==
    [found |-> \E k \in 1..Len(users) : users[k].email = email]

\* what one Ensure call did: whether what it ensures was there, whether it
\* saved, and what it returned
EnsureEntry(fn, existed, saved, err) ==
    [fn |-> fn, existed |-> existed, saved |-> saved, err |-> err]

\* a startup begins: the process is started (again) and OnServe fires
Startup ==
    /\ epc \in {"down", "serving", "failed"}
    /\ startups < MaxStartups
    /\ startups' = startups + 1
    /\ envVars' \in EnvInputs
    /\ epc' = "superuser"
    /\ ensureLog' = <<>>
    /\ UNCHANGED <<collections, superusers>>
    /\ UNCHANGED <<chainVars, provVars, wavVars, speakVars, sseVars, cliVars>>

\* auth.EnsureSuperuser(se.App, envVars.SilenceEmail, envVars.SilencePassword)
EnsureSuperuser ==
    /\ epc = "superuser"
    /\ LET email == envVars.SilenceEmail
           password == envVars.SilencePassword
       IN  IF email = "" \/ password = ""
           THEN /\ ensureLog' = Append(ensureLog,
                                  EnsureEntry("EnsureSuperuser", FALSE, FALSE, NilErr))
                /\ epc' = "silence"
                /\ UNCHANGED superusers
           ELSE IF FindAuthRecordByEmail(superusers, email).found
           THEN /\ ensureLog' = Append(ensureLog,
                                  EnsureEntry("EnsureSuperuser", TRUE, FALSE, NilErr))
                /\ epc' = "silence"
                /\ UNCHANGED superusers
           ELSE \E outcome \in StoreOutcomes :
                IF outcome = "collection not found"
                THEN /\ ensureLog' = Append(ensureLog,
                            EnsureEntry("EnsureSuperuser", FALSE, FALSE, CollectionNotFound))
                     /\ epc' = "failed"
                     /\ UNCHANGED superusers
                ELSE IF outcome = "save failed"
                THEN /\ ensureLog' = Append(ensureLog,
                            EnsureEntry("EnsureSuperuser", FALSE, FALSE, SaveFailed))
                     /\ epc' = "failed"
                     /\ UNCHANGED superusers
                ELSE /\ ensureLog' = Append(ensureLog,
                            EnsureEntry("EnsureSuperuser", FALSE, TRUE, NilErr))
                     /\ epc' = "silence"
                     /\ superusers' = Append(superusers,
                            [email |-> email, password |-> password])
    /\ UNCHANGED <<envVars, startups, collections>>
    /\ UNCHANGED <<chainVars, provVars, wavVars, speakVars, sseVars, cliVars>>

\* the body the two collection functions share: look the collection up,
\* return nil when it is there, otherwise build it and save it
EnsureCollection(fn, name, next) ==
    IF ~FindCollectionByNameOrId(collections, name).err
    THEN /\ ensureLog' = Append(ensureLog, EnsureEntry(fn, TRUE, FALSE, NilErr))
         /\ epc' = next
         /\ UNCHANGED collections
    ELSE \E saveOK \in BOOLEAN :
         IF ~saveOK
         THEN /\ ensureLog' = Append(ensureLog, EnsureEntry(fn, FALSE, FALSE, SaveFailed))
              /\ epc' = "failed"
              /\ UNCHANGED collections
         ELSE /\ ensureLog' = Append(ensureLog, EnsureEntry(fn, FALSE, TRUE, NilErr))
              /\ epc' = next
              /\ collections' = Append(collections, name)

\* database.EnsureSilenceCollection(se.App)
EnsureSilenceCollection ==
    /\ epc = "silence"
    /\ EnsureCollection("EnsureSilenceCollection", "silence", "apps")
    /\ UNCHANGED <<envVars, startups, superusers>>
    /\ UNCHANGED <<chainVars, provVars, wavVars, speakVars, sseVars, cliVars>>

\* database.EnsureAppsCollection(se.App)
EnsureAppsCollection ==
    /\ epc = "apps"
    /\ EnsureCollection("EnsureAppsCollection", "apps", "serving")
    /\ UNCHANGED <<envVars, startups, superusers>>
    /\ UNCHANGED <<chainVars, provVars, wavVars, speakVars, sseVars, cliVars>>

\* a database nothing was created in, and no startup yet
EnsureInit ==
    /\ envVars = NoEnv
    /\ epc = "down"
    /\ startups = 0
    /\ ensureLog = <<>>
    /\ collections = <<>>
    /\ superusers = <<>>

EnsureIdle ==
    /\ envVars = NoEnv
    /\ epc = "idle"
    /\ startups = 0
    /\ ensureLog = <<>>
    /\ collections = <<>>
    /\ superusers = <<>>

\* ------------------------------------------------------------ the CLI's recordAudio
\* recordAudio, its recording goroutine and its key goroutine. The two
\* channels are unbuffered: a send is one step with the receive of the
\* select, and there is no other receiver.
NoOutcome == [kind |-> "none"]

\* recordAudio up to its select: context, channels, and the two go statements
RecordAudio ==
    /\ rpc = "entry"
    /\ rpc' = "select"
    /\ gpc' = "pipe"
    /\ kpc' = "reading"
    /\ UNCHANGED <<rret, gval, ctxDone, timer>>
    /\ UNCHANGED <<chainVars, provVars, wavVars, speakVars, sseVars, ensureVars>>

\* the recording goroutine: cmd.StdoutPipe()
GoStdoutPipe ==
    /\ gpc = "pipe"
    /\ \E ok \in BOOLEAN :
        IF ok
        THEN gpc' = "start" /\ UNCHANGED gval
        ELSE gpc' = "send err" /\ gval' = LegacyErr("failed to create stdout pipe")
    /\ UNCHANGED <<rpc, rret, kpc, ctxDone, timer>>
    /\ UNCHANGED <<chainVars, provVars, wavVars, speakVars, sseVars, ensureVars>>

\* the recording goroutine: cmd.Start()
GoStart ==
    /\ gpc = "start"
    /\ \E ok \in BOOLEAN :
        IF ok
        THEN gpc' = "read" /\ UNCHANGED gval
        ELSE gpc' = "send err" /\ gval' = LegacyErr("failed to start ffmpeg")
    /\ UNCHANGED <<rpc, rret, kpc, ctxDone, timer>>
    /\ UNCHANGED <<chainVars, provVars, wavVars, speakVars, sseVars, ensureVars>>

\* the recording goroutine: io.ReadAll(stdout) returns, ffmpeg having ended
\* by itself or been killed by the cancelled context
GoReadAll ==
    /\ gpc = "read"
    /\ \E pcmData \in PcmInputs, readOK \in BOOLEAN :
        IF ~readOK /\ ~ctxDone
        THEN gpc' = "send err" /\ gval' = LegacyErr("failed to read PCM data")
        ELSE gpc' = "wait" /\ gval' = [kind |-> "pcm", data |-> pcmData]
    /\ UNCHANGED <<rpc, rret, kpc, ctxDone, timer>>
    /\ UNCHANGED <<chainVars, provVars, wavVars, speakVars, sseVars, ensureVars>>

\* the recording goroutine: cmd.Wait() returns
GoWait ==
    /\ gpc = "wait"
    /\ gpc' = "send data"
    /\ UNCHANGED <<rpc, rret, gval, kpc, ctxDone, timer>>
    /\ UNCHANGED <<chainVars, provVars, wavVars, speakVars, sseVars, ensureVars>>

\* the key goroutine: reader.ReadByte() returns, then cancel()
KeyPress ==
    /\ kpc = "reading"
    /\ kpc' = "done"
    /\ ctxDone' = TRUE
    /\ UNCHANGED <<rpc, rret, gpc, gval, timer>>
    /\ UNCHANGED <<chainVars, provVars, wavVars, speakVars, sseVars, ensureVars>>

\* the 30 seconds of time.After are over
TimerFires ==
    /\ rpc = "select"
    /\ timer = "armed"
    /\ timer' = "fired"
    /\ UNCHANGED <<rpc, rret, gpc, gval, kpc, ctxDone>>
    /\ UNCHANGED <<chainVars, provVars, wavVars, speakVars, sseVars, ensureVars>>

\* case pcmData := <-dataChan: the goroutine's send and the return, with
\* the deferred cancel
SelectData ==
    /\ rpc = "select"
    /\ gpc = "send data"
    /\ gpc' = "done"
    /\ rret' = [kind |-> "data", data |-> gval.data, err |-> NilErr]
    /\ rpc' = "returned"
    /\ ctxDone' = TRUE
    /\ UNCHANGED <<gval, kpc, timer>>
    /\ UNCHANGED <<chainVars, provVars, wavVars, speakVars, sseVars, ensureVars>>

\* case err := <-errChan
SelectErr ==
    /\ rpc = "select"
    /\ gpc = "send err"
    /\ gpc' = "done"
    /\ rret' = [kind |-> "error", data |-> NilPtr, err |-> gval]
    /\ rpc' = "returned"
    /\ ctxDone' = TRUE
    /\ UNCHANGED <<gval, kpc, timer>>
    /\ UNCHANGED <<chainVars, provVars, wavVars, speakVars, sseVars, ensureVars>>

\* case <-time.After(30 * time.Second): cancel() and the timeout error
SelectTimeout ==
    /\ rpc = "select"
    /\ timer = "fired"
    /\ rret' = [kind |-> "timeout", data |-> NilPtr,
                err |-> LegacyErr("recording timeout after 30 seconds")]
    /\ rpc' = "returned"
    /\ ctxDone' = TRUE
    /\ UNCHANGED <<gpc, gval, kpc, timer>>
    /\ UNCHANGED <<chainVars, provVars, wavVars, speakVars, sseVars, ensureVars>>

CLIInit ==
    /\ rpc = "entry"
    /\ rret = NoOutcome
    /\ gpc = "not started"
    /\ gval = NilPtr
    /\ kpc = "not started"
    /\ ctxDone = FALSE
    /\ timer = "armed"

CLIIdle ==
    /\ rpc = "idle"
    /\ rret = NoOutcome
    /\ gpc = "not started"
    /\ gval = NilPtr
    /\ kpc = "not started"
    /\ ctxDone = FALSE
    /\ timer = "idle"

SpeakInit ==
    /\ form \in SpeakForms
    /\ spc = "start"
    /\ speakCall = NoCall
    /\ writes = <<>>
    /\ hret = NoRet
    /\ save = NoSave
    /\ records = <<>>

SpeakIdle ==
    /\ form = NoCall
    /\ spc = "idle"
    /\ speakCall = NoCall
    /\ writes = <<>>
    /\ hret = NoRet
    /\ save = NoSave
    /\ records = <<>>

SpeakInitV1 ==
    /\ form \in SpeakFormsV1
    /\ spc = "start v1"
    /\ speakCall = NoCall
    /\ writes = <<>>
    /\ hret = NoRet
    /\ save = NoSave
    /\ records = <<>>

Init == ChainInit /\ ProviderIdle /\ WavIdle /\ SpeakIdle /\ SSEIdle /\ EnsureIdle /\ CLIIdle

\* one request at a time: the slot of call 1 takes MaxRounds calls in turn
Next ==
    \/ ChainTranscribe(1, OptsInputs)
    \/ ProviderCall(1)
    \/ ProviderReturn(1, NetOutcomes)
    \/ ChainExhausted(1)

Spec == Init /\ [][Next]_vars

\* several requests at once on the one chain, each slot taking one call
NextConc ==
    \E c \in Calls :
        \/ pc[c] = "idle" /\ ChainTranscribe(c, ConcOptsInputs)
        \/ ProviderCall(c)
        \/ ProviderReturn(c, ConcNetOutcomes)
        \/ ChainExhausted(c)

SpecConc == Init /\ [][NextConc]_vars

\* one provider's Transcribe, from its arguments to what it returns
InitProvider == ChainIdle /\ ProviderInit /\ WavIdle /\ SpeakIdle /\ SSEIdle /\ EnsureIdle /\ CLIIdle

NextProvider ==
    \/ TranscribeRequest
    \/ TranscribeResponse

SpecProvider == InitProvider /\ [][NextProvider]_vars

\* PcmToWav and readWAVFile on their own
InitWav == ChainIdle /\ ProviderIdle /\ WavInit /\ SpeakIdle /\ SSEIdle /\ EnsureIdle /\ CLIIdle

NextWav ==
    \/ PcmToWavCall
    \/ ReadWAVFileCall

SpecWav == InitWav /\ [][NextWav]_vars

\* one /speak request served by the handler main registers, with the
\* chain main builds
InitSpeak == ChainMain /\ ProviderIdle /\ WavIdle /\ SpeakInit /\ SSEIdle /\ EnsureIdle /\ CLIIdle

NextSpeak ==
    \/ HandleSpeak
    \/ SpeakTranscribe
    \/ ProviderCall(1)
    \/ ProviderReturn(1, NetOutcomes)
    \/ ChainExhausted(1)
    \/ SpeakRespond
    \/ SaveAudioToDatabase

SpecSpeak == InitSpeak /\ [][NextSpeak]_vars

\* one /speak request served by either version of the handler
InitSpeakVersions == ChainMain /\ ProviderIdle /\ WavIdle /\ (SpeakInit \/ SpeakInitV1) /\ SSEIdle /\ EnsureIdle /\ CLIIdle

NextSpeakVersions ==
    \/ HandleSpeak
    \/ SpeakTranscribe
    \/ SpeakRespond
    \/ HandleSpeakV1
    \/ SpeakTranscribeV1
    \/ SpeakRespondV1
    \/ ProviderCall(1)
    \/ ProviderReturn(1, NetOutcomes)
    \/ ChainExhausted(1)
    \/ SaveAudioToDatabase

SpecSpeakVersions == InitSpeakVersions /\ [][NextSpeakVersions]_vars

\* the same, with the handler and the goroutine it starts given their turn:
\* the Go scheduler runs a goroutine that can run
SpecSpeakFair ==
    /\ InitSpeak
    /\ [][NextSpeak]_vars
    /\ WF_vars(NextSpeak)

\* ------------------------------------------------------------ history helpers
\* how many times provider idx was invoked in the current call of slot c
CallCount(c, idx) ==
    Cardinality({ k \in DOMAIN attempts[c] : attempts[c][k].idx = idx })

Completed(a) == a.state # "running"

AllFailed(c) ==
    \A k \in DOMAIN attempts[c] : attempts[c][k].state = "failed"

\* the errors an error wraps with %w, itself included
RECURSIVE ErrorChain(_)
ErrorChain(e) ==
    IF "cause" \in DOMAIN e THEN {e} \cup ErrorChain(e.cause) ELSE {e}

\* ------------------------------------------------------------ claims

\* C1: in every call of ProviderChain.Transcribe the providers are invoked in
\* construction order: the k-th invocation of a call is of the k-th provider,
\* every invocation before the latest one has returned an error, and at most
\* one provider is in progress at a time.
C1_InvokedInOrder ==
    \A c \in Calls :
        /\ \A k \in DOMAIN attempts[c] :
              /\ attempts[c][k].idx = k - 1
              /\ k < Len(attempts[c]) => attempts[c][k].state = "failed"
        /\ Cardinality({ k \in DOMAIN attempts[c] : ~Completed(attempts[c][k]) }) <= 1
        /\ pc[c] = "http" <=>
              (attempts[c] # <<>> /\ ~Completed(attempts[c][Len(attempts[c])]))

\* the second provider is in progress after the first one failed
C1_Witness ==
    /\ Len(providers) >= 2
    /\ pc[1] = "http"
    /\ Len(attempts[1]) = 2
    /\ attempts[1][1].state = "failed"
    /\ attempts[1][2].state = "running"

C3_FirstSuccessReturned ==
    \A c \in Calls :
        pc[c] = "done" =>
            LET oks == { k \in DOMAIN attempts[c] : attempts[c][k].state = "ok" } IN
            /\ (ret[c].err = NilErr) <=> (oks # {})
            /\ \A k \in oks :
                  /\ \A j \in 1..(k - 1) : attempts[c][j].state = "failed"
                  /\ ret[c].result = attempts[c][k].out.result
                  /\ ret[c].result =
                        ProviderFinish(providers[attempts[c][k].idx + 1],
                                       attempts[c][k].net).result

\* the second provider's result, which has leading white space, was returned
C3_Witness ==
    /\ pc[1] = "done"
    /\ Len(attempts[1]) = 2
    /\ attempts[1][2].state = "ok"
    /\ ret[1].err = NilErr
    /\ ret[1].result.kind = "result"
    /\ ret[1].result.Text = TextHi

\* C4: a chain of zero providers fails every call at once with the 'no
\* transcription providers configured' error: no provider is invoked and no
\* request is made.
C4_EmptyChainFails ==
    \A c \in Calls :
        providers = <<>> =>
            /\ pc[c] \in {"idle", "done"}
            /\ attempts[c] = <<>>
            /\ pc[c] = "done" =>
                  /\ ret[c].result = NilResult
                  /\ ret[c].err.kind = "NoProvidersConfigured"

\* the second call on an empty chain has failed too
C4_Witness ==
    /\ providers = <<>>
    /\ pc[1] = "done"
    /\ rounds[1] = 2

\* C5: when every provider of a non-empty chain of n providers fails, the
\* call returns AllProvidersFailed wrapping the n-th provider's error tagged
\* with ordinal n, and the tagged errors of the providers before it are not
\* in the returned error.
C5_LastErrorOnly ==
    \A c \in Calls :
        (pc[c] = "done" /\ providers # <<>> /\ AllFailed(c)) =>
            LET n == Len(providers) IN
            /\ Len(attempts[c]) = n
            /\ ret[c].result = NilResult
            /\ ret[c].err.kind = "AllProvidersFailed"
            /\ ret[c].err.cause.kind = "ProviderFailed"
            /\ ret[c].err.cause.ordinal = n
            /\ ret[c].err.cause.cause = attempts[c][n].out.err
            /\ ErrorChain(ret[c].err) =
                  { ret[c].err, ret[c].err.cause, attempts[c][n].out.err }
            /\ \A k \in 1..(n - 1) :
                  \A e \in ErrorChain(ret[c].err) :
                      ~(e.kind = "ProviderFailed" /\ e.ordinal = k)

\* two providers failed with different errors
C5_Witness ==
    /\ Len(providers) = 2
    /\ pc[1] = "done"
    /\ Len(attempts[1]) = 2
    /\ AllFailed(1)
    /\ attempts[1][1].out.err # attempts[1][2].out.err

\* the outbound requests made so far by the current call of slot c
RECURSIVE SumReqs(_)
SumReqs(as) == IF as = <<>> THEN 0 ELSE Head(as).reqs + SumReqs(Tail(as))

\* C6: no retries: within one call no provider is invoked more than once,
\* each invocation makes at most one outbound request, and so a call over n
\* providers makes at most n requests.
C6_NoRetries ==
    \A c \in Calls :
        /\ \A idx \in 0..(Len(providers) - 1) : CallCount(c, idx) <= 1
        /\ \A k \in DOMAIN attempts[c] :
              /\ attempts[c][k].reqs <= 1
              /\ attempts[c][k].net # NoNet => attempts[c][k].reqs = 1
        /\ Len(attempts[c]) <= Len(providers)
        /\ SumReqs(attempts[c]) <= Len(providers)

\* both providers failed on the network, one request each
C6_Witness ==
    /\ Len(providers) = 2
    /\ pc[1] = "done"
    /\ AllFailed(1)
    /\ attempts[1][1].net = NetFail
    /\ attempts[1][2].net = NetFail
    /\ SumReqs(attempts[1]) = 2

\* C7: no state is kept between calls: the provider list never changes, and
\* every call begins with fresh locals and tries the first provider first,
\* whatever the earlier calls did.
C7_NoStateBetweenCalls ==
    /\ [](\A c \in Calls :
            /\ attempts[c] # <<>> => attempts[c][1].idx = 0
            /\ (pc[c] = "loop" /\ attempts[c] = <<>>) =>
                  (i[Frame(c)] = 0 /\ lastErr[Frame(c)] = NilErr))
    /\ [][providers' = providers]_vars

\* the previous call failed over to the second provider, which succeeded,
\* and the next call has tried a provider
C7_Witness ==
    /\ rounds[1] = 2
    /\ prev[1].ok
    /\ prev[1].tried = 2
    /\ attempts[1] # <<>>
    /\ attempts[1][1].idx = 0

\* The outcome a call has when it runs alone: the chain's loop as one
\* sequential computation over the answers the network gave this call.
NetAt(nets, k) == IF k \in DOMAIN nets THEN nets[k] ELSE NetFail

RECURSIVE SoloFrom(_, _, _, _, _)
SoloFrom(ps, opts, nets, idx, last) ==
    IF idx >= Len(ps)
    THEN [result |-> NilResult, err |-> [kind |-> "AllProvidersFailed", cause |-> last]]
    ELSE LET early == ProviderPrepare(ps[idx + 1], opts)
             out == IF early # NilErr
                    THEN [result |-> NilResult, err |-> early]
                    ELSE ProviderFinish(ps[idx + 1], NetAt(nets, idx + 1))
         IN  IF out.err = NilErr
             THEN [result |-> out.result, err |-> NilErr]
             ELSE SoloFrom(ps, opts, nets, idx + 1,
                           [kind |-> "ProviderFailed", ordinal |-> idx + 1,
                            cause |-> out.err])

Solo(ps, opts, nets) ==
    IF Len(ps) = 0
    THEN [result |-> NilResult, err |-> [kind |-> "NoProvidersConfigured"]]
    ELSE SoloFrom(ps, opts, nets, 0, NilErr)

NetsOf(c) == [k \in DOMAIN attempts[c] |-> attempts[c][k].net]

\* C8: concurrent calls of the one shared chain are independent: under every
\* interleaving each call tries the providers in construction order and
\* returns what it would return alone on the same network answers, and a
\* step of one call leaves the loop index and lastErr of the others alone.
C8_ConcurrentCallsIndependent ==
    /\ [](\A c \in Calls :
            /\ \A k \in DOMAIN attempts[c] : attempts[c][k].idx = k - 1
            /\ pc[c] = "done" => ret[c] = Solo(providers, args[c], NetsOf(c)))
    /\ [][\A c \in Calls :
            (pc'[c] = pc[c] /\ attempts'[c] = attempts[c]) =>
                (i'[c] = i[c] /\ lastErr'[c] = lastErr[c] /\ ret'[c] = ret[c])]_vars

\* two calls are in client.Do at the same time, at different providers, one
\* of them with an error already recorded
C8_Witness ==
    /\ pc[1] = "http"
    /\ pc[2] = "http"
    /\ i[1] = 1
    /\ i[2] = 0
    /\ lastErr[1] # NilErr
    /\ lastErr[2] = NilErr

\* exactly one of a result and an error
ResultXorError(r) ==
    \/ r.err = NilErr /\ r.result.kind = "result"
                      /\ DOMAIN r.result = {"kind", "Text", "LanguageCode"}
    \/ r.err # NilErr /\ r.result = NilResult

\* C9: every Transcribe call, of a provider and of the chain, returns exactly
\* one of a complete TranscriptionResult and an error.
C9_ResultXorError ==
    \A c \in Calls :
        /\ \A k \in DOMAIN attempts[c] :
              Completed(attempts[c][k]) => ResultXorError(attempts[c][k].out)
        /\ pc[c] = "done" => ResultXorError(ret[c])

\* the first provider could not decode its 200 response and returned only an
\* error, the second returned only a result, and so did the chain
C9_Witness ==
    /\ pc[1] = "done"
    /\ Len(attempts[1]) = 2
    /\ attempts[1][1].out.err.kind = "ResponseDecodeFailed"
    /\ attempts[1][1].out.result = NilResult
    /\ attempts[1][2].out.err = NilErr
    /\ ret[1].err = NilErr
    /\ ret[1].result.kind = "result"

\* a provider invocation that got a response with a status outside 200..299
Non2xx(a) ==
    /\ Completed(a)
    /\ a.net.kind = "resp"
    /\ a.net.status \notin 200..299

\* the NonOKStatus error with the status of the response and the body as
\* it was read from it, and no result
CarriesStatusAndBody(a) ==
    /\ a.out.result = NilResult
    /\ a.out.err.kind = "NonOKStatus"
    /\ a.out.err.status = a.net.status
    /\ a.out.err.body = ReadAll(a.net).data
    /\ a.net.readOK => a.out.err.body = a.net.body

\* C10 as stated: for every non-2xx response the provider returns the
\* NonOKStatus error with the exact status code and the exact response body
\* observed, and no result.
C10_AsStated ==
    \A c \in Calls : \A k \in DOMAIN attempts[c] :
        Non2xx(attempts[c][k]) => CarriesStatusAndBody(attempts[c][k])

\* C10, amended: for every non-2xx response the provider returns the
\* NonOKStatus error with the exact status code and the exact response body
\* observed, and no result, except that the Chutes provider, which reads the
\* body before it looks at the status, returns its read error (with neither
\* status nor body, and no result) when reading the body fails.
C10_NonOKStatusUnlessChutesReadFails ==
    \A c \in Calls : \A k \in DOMAIN attempts[c] :
        LET a == attempts[c][k] IN
        Non2xx(a) =>
            IF providers[a.idx + 1] = "chutes" /\ ~a.net.readOK
            THEN /\ a.out.result = NilResult
                 /\ a.out.err.kind = "ReadFailed"
                 /\ DOMAIN a.out.err = {"kind", "provider"}
            ELSE CarriesStatusAndBody(a)

\* a status 500 went through both providers: ElevenLabs, whose read of the
\* body broke off, and Chutes, which read the body in full
C10_Witness ==
    /\ providers = <<"elevenlabs", "chutes">>
    /\ Len(attempts[1]) = 2
    /\ \A k \in 1..2 :
          /\ Non2xx(attempts[1][k])
          /\ attempts[1][k].out.err.kind = "NonOKStatus"
          /\ attempts[1][k].out.err.status = 500
    /\ ~attempts[1][1].net.readOK
    /\ attempts[1][1].out.err.body = Truncated(ErrBody)
    /\ attempts[1][2].net.readOK
    /\ attempts[1][2].out.err.body = ErrBody

\* ------------------------------------------------------------ one provider's call
\* the call under test has returned after an answer with status 200 whose
\* body was read to its end
Answered200 ==
    /\ ppc = "done"
    /\ pnet.kind = "resp"
    /\ pnet.status = StatusOK
    /\ pnet.readOK

\* a body that is not the provider's document: for ElevenLabs anything but
\* an object with the members text and language_code, for Chutes anything
\* but an array
MalformedFor(kind, body) ==
    IF kind = "elevenlabs"
    THEN ~(body.type = "object" /\ {"text", "language_code"} \subseteq DOMAIN body)
    ELSE body.type # "array"

\* C11: every status-200 response whose body is malformed (not JSON, or JSON
\* without the required shape: an object without text / language_code for
\* ElevenLabs, a non-array for Chutes) yields the ResponseDecodeFailed error
\* and never a result.
C11_AsStated ==
    (Answered200 /\ MalformedFor(pcall.kind, pnet.body)) =>
        /\ pout.result = NilResult
        /\ pout.err.kind = "ResponseDecodeFailed"

\* a JSON object whose members text and language_code are strings
WellFormedObject(body) ==
    /\ body.type = "object"
    /\ {"text", "language_code"} \subseteq DOMAIN body
    /\ body.text.type = "string"
    /\ body.language_code.type = "string"

\* C12: when the endpoint answers 200 with a well-formed {text,
\* language_code} object, ElevenLabs returns a result whose text and
\* languageCode are exactly the body's values, nothing trimmed or changed,
\* and no error.
C12_ElevenLabsRoundTrip ==
    (Answered200 /\ pcall.kind = "elevenlabs" /\ WellFormedObject(pnet.body)) =>
        /\ pout.err = NilErr
        /\ pout.result.kind = "result"
        /\ pout.result.Text = pnet.body.text.value
        /\ pout.result.LanguageCode = pnet.body.language_code.value

\* PCM samples that are all zero were sent, and the text came back with the
\* white space it had on both sides
C12_Witness ==
    /\ Answered200
    /\ pcall.kind = "elevenlabs"
    /\ pcall.opts.Metadata.Format = AudioFormatPCMLE16
    /\ pcall.audioData = <<0, 0>>
    /\ pnet.body = ObjPaddedBody
    /\ pout.result = TranscriptionResult(<<" ", "a", "\t">>, "en")
    /\ pout.err = NilErr

\* a JSON array whose elements are objects with a string for text
WellFormedArray(body) ==
    /\ body.type = "array"
    /\ \A k \in DOMAIN body.items :
          /\ body.items[k].type = "object"
          /\ "text" \in DOMAIN body.items[k]
          /\ body.items[k].text.type = "string"

\* the texts of the segments of a well-formed array, in array order
SegmentTexts(body) == [k \in DOMAIN body.items |-> body.items[k].text.value]

\* C13: when the endpoint answers 200 with an array of segments, Chutes
\* returns as text the segments' texts concatenated in array order with no
\* separator, the whole trimmed of leading and trailing white space, and the
\* languageCode is always empty.
C13_ChutesConcatTrim ==
    (Answered200 /\ pcall.kind = "chutes" /\ WellFormedArray(pnet.body)) =>
        /\ pout.err = NilErr
        /\ pout.result.kind = "result"
        /\ pout.result.Text = TrimSpace(ConcatSegments(SegmentTexts(pnet.body)))
        /\ pout.result.LanguageCode = ""

\* two segments, "\n a" and "b \t", came back as "ab"; although a language
\* was asked for, none is reported
C13_Witness ==
    /\ Answered200
    /\ pcall.kind = "chutes"
    /\ pcall.opts.LanguageCode = "en"
    /\ pnet.body = ArrPaddedBody
    /\ Len(pnet.body.items) = 2
    /\ pout.result = TranscriptionResult(<<"a", "b">>, "")
    /\ pout.err = NilErr

\* the values of the form fields of that name in a multipart request
FieldValues(req, name) ==
    { req.fields[k].value : k \in { j \in DOMAIN req.fields : req.fields[j].name = name } }

\* how many form fields of that name a multipart request has
FieldCount(req, name) ==
    Cardinality({ j \in DOMAIN req.fields : req.fields[j].name = name })

\* C14: both providers send a language exactly when opts.LanguageCode is
\* neither "auto" nor empty: ElevenLabs then adds the form field
\* language_code, Chutes then sets the member language of its JSON body,
\* each with the code as given; otherwise the field / member is left out.
C14_LanguageSentIffSpecified ==
    preq # NoReq =>
        LET code == pcall.opts.LanguageCode
            specified == code \notin {"auto", ""}
        IN  IF pcall.kind = "elevenlabs"
            THEN /\ preq.kind = "multipart"
                 /\ FieldCount(preq, "language_code") = (IF specified THEN 1 ELSE 0)
                 /\ specified => FieldValues(preq, "language_code") = {code}
            ELSE /\ preq.kind = "json"
                 /\ ("language" \in DOMAIN preq.body) = specified
                 /\ specified => preq.body.language = code

\* ElevenLabs was asked for "en" and its request has the field, after
\* model_id and file_format
C14_Witness ==
    /\ pcall.kind = "elevenlabs"
    /\ pcall.opts.LanguageCode = "en"
    /\ ppc = "http"
    /\ Len(preq.fields) = 3
    /\ preq.fields[3] = [name |-> "language_code", value |-> "en"]

\* the request is ElevenLabs' form with exactly this file_format field and
\* this name for the uploaded file
UploadsAs(req, fileFormat, filename) ==
    /\ req.kind = "multipart"
    /\ FieldCount(req, "file_format") = 1
    /\ FieldValues(req, "file_format") = {fileFormat}
    /\ req.file.name = "file"
    /\ req.file.filename = filename

\* C15: ElevenLabs maps the audio format to the request: pcm_s16le_16 gives
\* file_format "pcm_s16le_16" and the file name audio.pcm, wav gives
\* file_format "other" and audio.wav, and any other format gives the
\* 'unsupported audio format' error before any request is made.
C15_ElevenLabsFormatMapping ==
    (pcall.kind = "elevenlabs" /\ ppc # "start") =>
        LET format == pcall.opts.Metadata.Format IN
        CASE format = AudioFormatPCMLE16 -> UploadsAs(preq, "pcm_s16le_16", "audio.pcm")
          [] format = AudioFormatWAV -> UploadsAs(preq, "other", "audio.wav")
          [] OTHER ->
                /\ ppc = "done"
                /\ preq = NoReq
                /\ pnet = NoNet
                /\ pout.result = NilResult
                /\ pout.err.kind = "UnsupportedFormat"
                /\ pout.err.format = format

\* a WAV upload went out as "other" / audio.wav and was answered
C15_Witness ==
    /\ pcall.kind = "elevenlabs"
    /\ pcall.opts.Metadata.Format = AudioFormatWAV
    /\ ppc = "done"
    /\ preq.fields[2] = [name |-> "file_format", value |-> "other"]
    /\ preq.file.filename = "audio.wav"
    /\ pout.err = NilErr

\* an mp3 upload was refused with no request made
C15_WitnessUnsupported ==
    /\ pcall.kind = "elevenlabs"
    /\ pcall.opts.Metadata.Format = "mp3"
    /\ ppc = "done"
    /\ preq = NoReq
    /\ pout.err.kind = "UnsupportedFormat"

\* the value of a base64 character; the padding "=" counts as no bits
B64Value(ch) ==
    IF ch = "=" THEN 0 ELSE CHOOSE v \in 0..63 : B64Alphabet[v + 1] = ch

\* base64 decoding as the endpoint does it: four characters give three
\* bytes, fewer where the group is padded
RECURSIVE DecodeString(_)
DecodeString(t) ==
    IF Len(t) < 4 THEN <<>>
    ELSE LET n == B64Value(t[1]) * 262144 + B64Value(t[2]) * 4096
                    + B64Value(t[3]) * 64 + B64Value(t[4])
             bytes == <<n \div 65536, (n \div 256) % 256, n % 256>>
             keep == IF t[3] = "=" THEN 1 ELSE IF t[4] = "=" THEN 2 ELSE 3
         IN  SubSeq(bytes, 1, keep) \o DecodeString(SubSeq(t, 5, Len(t)))

\* the audio bytes the endpoint gets out of a request: the file part of the
\* form, or the decoded audio_b64 member
SentAudio(req) ==
    IF req.kind = "multipart" THEN req.file.data ELSE DecodeString(req.body.audio_b64)

\* the WAV file of the call's audio, built from the call's metadata
WavOfCall ==
    PcmToWav(pcall.audioData, pcall.opts.Metadata.SampleRate,
             pcall.opts.Metadata.Channels, pcall.opts.Metadata.BitsPerSample).data

\* C16, as stated: when the format is PCM the audio each of the two
\* providers sends is the synthesized WAV container (44-byte header, then
\* the samples); when the format is WAV the bytes are sent unchanged.
C16_AsStated ==
    preq # NoReq =>
        /\ pcall.opts.Metadata.Format = AudioFormatPCMLE16 =>
              /\ SentAudio(preq) = WavOfCall
              /\ Len(SentAudio(preq)) = 44 + Len(pcall.audioData)
        /\ pcall.opts.Metadata.Format = AudioFormatWAV =>
              SentAudio(preq) = pcall.audioData

\* C16, amended: only Chutes builds the WAV container: when the format is
\* PCM it sends (in base64) the 44-byte header built from the metadata
\* followed by the samples, and when the format is WAV it sends the bytes
\* unchanged; ElevenLabs sends the bytes unchanged for both formats, PCM
\* going out as bare samples under file_format pcm_s16le_16.
C16_OnlyChutesBuildsWav ==
    preq # NoReq =>
        IF pcall.kind = "chutes" /\ pcall.opts.Metadata.Format = AudioFormatPCMLE16
        THEN /\ SentAudio(preq) = WavOfCall
             /\ Len(SentAudio(preq)) = 44 + Len(pcall.audioData)
             /\ SubSeq(SentAudio(preq), 45, Len(SentAudio(preq))) = pcall.audioData
        ELSE SentAudio(preq) = pcall.audioData

\* Chutes sent two PCM bytes as a 46-byte WAV file
C16_Witness ==
    /\ pcall.kind = "chutes"
    /\ pcall.opts.Metadata.Format = AudioFormatPCMLE16
    /\ pcall.audioData = <<0, 255>>
    /\ ppc = "http"
    /\ Len(SentAudio(preq)) = 46
    /\ SubSeq(SentAudio(preq), 1, 4) = TagRIFF
    /\ Len(preq.body.audio_b64) = 64

\* ------------------------------------------------------------ WAV files
\* the little-endian number in the four / two bytes at a 0-based offset
U32At(data, off) ==
    data[off + 1] + data[off + 2] * 256 + data[off + 3] * 65536
        + data[off + 4] * 16777216

U16At(data, off) == data[off + 1] + data[off + 2] * 256

\* the four bytes at a 0-based offset
TagAt(data, off) == SubSeq(data, off + 1, off + 4)

\* the WAV header of N samples' bytes at 16000 Hz, mono, 16 bits
CanonicalHeader(data, n) ==
    /\ Len(data) = n + 44
    /\ TagAt(data, 0) = <<82, 73, 70, 70>>
    /\ U32At(data, 4) = 36 + n
    /\ TagAt(data, 8) = <<87, 65, 86, 69>>
    /\ TagAt(data, 12) = <<102, 109, 116, 32>>
    /\ U32At(data, 16) = 16
    /\ U16At(data, 20) = 1
    /\ U16At(data, 22) = 1
    /\ U32At(data, 24) = 16000
    /\ U32At(data, 28) = 32000
    /\ U16At(data, 32) = 2
    /\ U16At(data, 34) = 16
    /\ TagAt(data, 36) = <<100, 97, 116, 97>>
    /\ U32At(data, 40) = n

\* C17: PcmToWav on N bytes of PCM with sample rate 16000, 1 channel and 16
\* bits returns exactly N+44 bytes: RIFF at offset 0, the little-endian
\* 36+N at 4, WAVE at 8, "fmt " at 12, fmt size 16, format code 1, 1
\* channel, rate 16000, byte rate 32000, block align 2, 16 bits, "data" at
\* 36 and the little-endian N at 40.
C17_CanonicalHeader ==
    (wavIn # NoCall /\ wavIn.sampleRate = 16000 /\ wavIn.channels = 1
        /\ wavIn.bitsPerSample = 16) =>
        \A k \in DOMAIN wavOuts :
            CanonicalHeader(wavOuts[k].data, Len(wavIn.pcmData))

\* three bytes of PCM became a 47-byte file whose RIFF size says 39
C17_Witness ==
    /\ wavIn # NoCall
    /\ wavIn.pcmData = <<0, 255, 255>>
    /\ wavIn.sampleRate = 16000 /\ wavIn.channels = 1 /\ wavIn.bitsPerSample = 16
    /\ wavOuts # <<>>
    /\ Len(wavOuts[1].data) = 47
    /\ wavOuts[1].data[5] = 39
    /\ wavOuts[1].data[41] = 3

IsSuccess(w) == w.status = 200

\* a response that is the error payload: status 400 and {error, timestamp}
IsErrorPayload(w) ==
    /\ w.status = 400
    /\ DOMAIN w.payload = {"error", "timestamp"}

\* the upload reached the handler whole and is empty
EmptyUpload(f) == f.parseOK /\ f.hasAudio /\ f.readOK /\ Len(f.audio) = 0

\* the form names a format that is neither of the two recognized ones (an
\* absent file_format stands for pcm_s16le_16)
UnrecognizedFormat(f) == f.file_format \notin {"", AudioFormatPCMLE16, AudioFormatWAV}

\* how many times a provider was invoked for the request
ProviderInvocations == Len(attempts[1])

\* C19: a /speak request whose audio is empty or whose file_format is not
\* one of the two recognized formats never gets a successful transcription
\* response: the empty upload is rejected with 'audio file is empty' before
\* any provider is invoked, and an unrecognized format is answered with an
\* error payload.
C19_BadInputNeverSucceeds ==
    form # NoCall =>
        /\ (Len(form.audio) = 0 \/ UnrecognizedFormat(form)) =>
              /\ \A k \in DOMAIN writes : ~IsSuccess(writes[k])
              /\ save = NoSave
              /\ spc = "done" => (Len(writes) = 1 /\ IsErrorPayload(writes[1]))
        /\ (EmptyUpload(form) /\ spc # "start") =>
              /\ spc = "done"
              /\ writes[1].payload.error.message = "audio file is empty"
              /\ speakCall = NoCall
              /\ pc[1] = "idle"
              /\ ProviderInvocations = 0

\* an empty upload in a recognized format was turned away
C19_WitnessEmpty ==
    /\ form # NoCall
    /\ EmptyUpload(form)
    /\ form.file_format = AudioFormatWAV
    /\ spc = "done"
    /\ Len(writes) = 1
    /\ writes[1].status = 400
    /\ writes[1].payload.error.message = "audio file is empty"

\* an mp3 upload with bytes in it went to the provider, which refused the
\* format without a request, and the client got the error payload
C19_Witness ==
    /\ form # NoCall
    /\ form.file_format = "mp3"
    /\ Len(form.audio) > 0
    /\ spc = "done"
    /\ ProviderInvocations = 1
    /\ attempts[1][1].reqs = 0
    /\ IsErrorPayload(writes[1])
    /\ writes[1].payload.error.cause.cause.cause.kind = "UnsupportedFormat"

\* C20: every failure of the transcription core during a /speak request
\* becomes the error payload {error, timestamp} with status 400 and is not
\* fatal: HandleSpeak returns nil, exactly one response is written for the
\* request, and no success payload follows an error payload.
C20_CoreFailureIsErrorPayload ==
    /\ Len(writes) <= 1
    /\ \A j, k \in DOMAIN writes :
          (j < k /\ IsErrorPayload(writes[j])) => ~IsSuccess(writes[k])
    /\ (spc = "done" /\ speakCall # NoCall /\ ret[1].err # NilErr) =>
          /\ Len(writes) = 1
          /\ IsErrorPayload(writes[1])
          /\ writes[1].payload.error.message = "Failed to transcribe audio"
          /\ writes[1].payload.error.cause = ret[1].err
          /\ hret = NilErr
          /\ save = NoSave
    /\ spc = "done" => (hret = NilErr /\ Len(writes) = 1)

\* the endpoint could not be reached: the chain failed and the client was
\* told so
C20_Witness ==
    /\ spc = "done"
    /\ speakCall # NoCall
    /\ ret[1].err.kind = "AllProvidersFailed"
    /\ ret[1].err.cause.cause.kind = "NetworkFailure"
    /\ Len(writes) = 1
    /\ writes[1].status = 400
    /\ hret = NilErr

\* C21: in HandleSpeak the transcription is written to the client before
\* compression and storage begin: the background save exists only once the
\* 200 response has been written, the handler has then returned without
\* waiting for it, and whatever the save does (a failed compression or a
\* failed save included) the response that was sent stays as it is.
C21_ResponseBeforeSave ==
    /\ [](save # NoSave =>
            /\ Len(writes) = 1
            /\ IsSuccess(writes[1])
            /\ spc = "done"
            /\ hret = NilErr)
    /\ [][save # NoSave => writes' = writes]_vars
    /\ [][(spc = "call" /\ spc' = "done" /\ save' # NoSave) =>
            (save'.state = "spawned" /\ records' = records)]_vars

\* the compression of the background save failed after the client had its
\* transcription; nothing was stored
C21_Witness ==
    /\ save.state = "compress failed"
    /\ Len(writes) = 1
    /\ writes[1].status = 200
    /\ writes[1].payload.text = <<" ", "h", "i">>
    /\ hret = NilErr
    /\ records = <<>>

\* the one record of the request holds the base64 of the compressed upload
\* and the text the client was sent
RecordOfRequest(r) ==
    /\ r.audio.encoding = "base64"
    /\ r.audio.of.codec = "ogg"
    /\ r.audio.of.of = form.audio
    /\ r.result = writes[1].payload.text

\* the request's transcription succeeded and the client has the 200 response
Transcribed == Len(writes) = 1 /\ IsSuccess(writes[1])

\* C22, as stated: each multipart /speak request whose transcription
\* succeeds eventually leads to exactly one record in the silence collection
\* holding the base64 of the compressed audio and the transcription text,
\* and no request ever creates more than one record.
C22_AsStated ==
    /\ [](Len(records) <= 1)
    /\ (Transcribed ~> (Len(records) = 1 /\ RecordOfRequest(records[1])))

\* C22, amended: no request ever creates more than one record, a record
\* exists only for a request whose transcription succeeded and then holds
\* the base64 of the compressed audio and the transcription text; such a
\* request's background save always ends, with exactly one record when the
\* compression, the collection lookup and the save all succeed and with no
\* record when any of them fails.
C22_AtMostOneRecord ==
    /\ [](Len(records) <= 1)
    /\ [](records # <<>> => (Transcribed /\ RecordOfRequest(records[1])))
    /\ [](Len(records) = 1 <=> save.state = "saved")
    /\ (Transcribed ~> save.state \in SaveOutcomes)
    /\ [][records # <<>> => records' = records]_vars

\* a transcribed upload was stored
C22_Witness ==
    /\ save.state = "saved"
    /\ Len(records) = 1
    /\ records[1].result = <<" ", "h", "i">>
    /\ records[1].audio.of.of = <<255, 0>>
    /\ Transcribed

\* the request was turned away or its transcription failed: the client has
\* the error payload
Rejected == spc = "done" /\ Len(writes) = 1 /\ IsErrorPayload(writes[1])

\* the request came by the JSON (pcm_data) path
ByJSON == "contentType" \in DOMAIN form /\ form.contentType = "application/json"

\* C23: a /speak request that is rejected (invalid form, missing or empty
\* audio, failed transcription) leaves the record store as it was, and the
\* JSON (pcm_data) path never writes to the store, not even after a
\* successful transcription.
C23_RejectedAndJSONLeaveStore ==
    /\ []((Rejected \/ ByJSON) => (records = <<>> /\ save = NoSave))
    /\ [][(Rejected \/ ByJSON) => records' = records]_vars

\* PCM sent as JSON was transcribed, the client has its text and the store
\* is empty with no save under way
C23_Witness ==
    /\ ByJSON
    /\ spc = "done"
    /\ Len(form.pcm_data) = 2
    /\ IsSuccess(writes[1])
    /\ Len(speakCall.audioData) = 46
    /\ writes[1].payload.audio_length = 1
    /\ records = <<>>
    /\ save = NoSave

\* ------------------------------------------------------------ the SSE /speak, one request
InitSSE == ChainIdle /\ ProviderIdle /\ WavIdle /\ SpeakIdle /\ SSEInit /\ EnsureIdle /\ CLIIdle

NextSSE ==
    \/ SSEStart
    \/ SSEDecodeJSON
    \/ SSETranscribePCM
    \/ SSEParseForm
    \/ SSEReadAudio
    \/ SSECompress
    \/ SSESaveAudio
    \/ SSETranscribeWAV
    \/ SSECreateNote

SpecSSE == InitSSE /\ [][NextSSE]_vars

\* the stage events of the two paths, in the order handleSpeak sends them
MultipartStages ==
    <<"start", "processing", "compressing", "saving", "transcribing", "complete">>
JSONStages == <<"start", "processing", "transcribed", "complete">>

StagesOf(f) == IF f.contentType = JSONContentType THEN JSONStages ELSE MultipartStages

EventNames == [k \in 1..Len(events) |-> events[k].event]

IsPrefix(s, t) == Len(s) <= Len(t) /\ s = SubSeq(t, 1, Len(s))

TerminalEvents == {"complete", "error"}

StreamEnded == events # <<>> /\ events[Len(events)].event \in TerminalEvents

\* the stream so far: stage events in the path's order, then at most one
\* terminal event: complete after all stages, or one error in place of a stage
StreamWellFormed ==
    LET names == EventNames
        stages == StagesOf(sseForm)
        body == IF names # <<>> /\ names[Len(names)] = "error"
                THEN SubSeq(names, 1, Len(names) - 1)
                ELSE names
    IN  /\ IsPrefix(body, stages)
        /\ names # body => body # stages
        /\ names # <<>> => names[1] = "start"
        /\ ssePc = "done" => StreamEnded
        /\ ssePc # "done" => ~StreamEnded

C24_WitnessComplete ==
    /\ ssePc = "done"
    /\ EventNames = JSONStages

\* the audio records whose id is the given one
AudioRecordsWithId(id) ==
    { k \in 1..Len(audioRecords) : audioRecords[k].id = id }

\* the request's own audio record is saved: the one handleSpeak built from
\* the uploaded audio, under the id its record.Id holds
OwnAudioSaved ==
    /\ sseLocal.recordId # NoSSELocal.recordId
    /\ \E k \in AudioRecordsWithId(sseLocal.recordId) :
          audioRecords[k] = AudioRecord(sseLocal.recordId, sseForm.audio)

NotesOfOwnAudio ==
    { k \in 1..Len(noteRecords) : noteRecords[k].audio_id = sseLocal.recordId }

\* C28: on the multipart path a note exists only once the request's audio
\* record was saved and its transcription succeeded, the note's audio_id is
\* that record's id and names exactly one existing audio record; a failure
\* after the audio save leaves the audio record in place without a note
C28_NoteOnlyAfterAudioSaved ==
    /\ [](\A k \in 1..Len(noteRecords) :
            /\ sseForm.contentType = MultipartContentType
            /\ OwnAudioSaved
            /\ sseLocal.result # NilResult
            /\ noteRecords[k].audio_id = sseLocal.recordId
            /\ noteRecords[k].title = sseLocal.result.Text
            /\ Cardinality(AudioRecordsWithId(noteRecords[k].audio_id)) = 1)
    /\ []((ssePc = "done" /\ OwnAudioSaved /\ events[Len(events)].event = "error")
            => NotesOfOwnAudio = {})
    /\ [][IsPrefix(audioRecords, audioRecords')]_vars

C28_Witness ==
    /\ ssePc = "done"
    /\ Len(noteRecords) = 1
    /\ Len(audioRecords) = 2
    /\ noteRecords[1].audio_id = audioRecords[2].id

C28_WitnessNoRollback ==
    /\ ssePc = "done"
    /\ OwnAudioSaved
    /\ noteRecords = <<>>
    /\ events[Len(events)].event = "error"

\* the request reached provider.Transcribe
SpeakCalled == speakCall # NoCall

\* C25: the options HandleSpeak hands to the provider: LanguageCode is "auto"
\* when the form has no language_code and Format is pcm_s16le_16 when it has
\* no file_format, a value the form does carry is passed as it is, and the
\* metadata is always 16000 Hz, 1 channel, 16 bits; the chain receives
\* exactly these options
C25_SpeakOptionDefaults ==
    SpeakCalled =>
        LET opts == speakCall.opts IN
        /\ form.language_code = "" => opts.LanguageCode = "auto"
        /\ form.language_code # "" => opts.LanguageCode = form.language_code
        /\ form.file_format = "" => opts.Metadata.Format = AudioFormatPCMLE16
        /\ form.file_format # "" => opts.Metadata.Format = form.file_format
        /\ opts.Metadata.SampleRate = 16000
        /\ opts.Metadata.Channels = 1
        /\ opts.Metadata.BitsPerSample = 16
        /\ pc[1] # "idle" => args[1] = opts

C25_Witness ==
    /\ SpeakCalled
    /\ pc[1] = "done"
    /\ form.language_code = ""
    /\ form.file_format = ""
    /\ args[1].LanguageCode = "auto"
    /\ args[1].Metadata.Format = AudioFormatPCMLE16

C25_WitnessSupplied ==
    /\ SpeakCalled
    /\ pc[1] = "done"
    /\ form.language_code = "en"
    /\ form.file_format = AudioFormatWAV
    /\ args[1].LanguageCode = "en"
    /\ args[1].Metadata.Format = AudioFormatWAV

\* ------------------------------------------------------------ the chain, with progress
\* The loop of Transcribe runs on its own goroutine and is never blocked but
\* in client.Do, which the client's 30 second Timeout makes return: each
\* step of a running call is eventually taken.
SpecFair ==
    /\ Init
    /\ [][Next]_vars
    /\ WF_vars(ProviderCall(1))
    /\ WF_vars(ProviderReturn(1, NetOutcomes))
    /\ WF_vars(ChainExhausted(1))

Running(c) == pc[c] \in {"loop", "http"}

\* C26: a call of the chain's Transcribe makes at most one provider call per
\* provider of the list and, every provider call returning, it returns; a
\* call that returns the all-failed error has tried every provider, none
\* being skipped because earlier attempts used up time
C26_ChainTerminates ==
    /\ [](Len(attempts[1]) <= Len(providers))
    /\ []((pc[1] = "done" /\ ret[1].err # NilErr /\ ~NoProviders(providers))
            => Len(attempts[1]) = Len(providers))
    /\ Running(1) ~> pc[1] = "done"

C26_Witness ==
    /\ pc[1] = "done"
    /\ Len(providers) = MaxProviders
    /\ Len(attempts[1]) = MaxProviders
    /\ ret[1].err # NilErr

\* the provider's call got a response whose status is not 200
AnsweredNot200 ==
    /\ ppc = "done"
    /\ pnet.kind = "resp"
    /\ pnet.status # StatusOK

StatusErrorReturned ==
    /\ pout.result = NilResult
    /\ pout.err.kind = "NonOKStatus"
    /\ pout.err.status = pnet.status

\* C27 as stated: a provider returns a result only when the status is
\* exactly 200, and every other status yields the status error.
C27_AsStated ==
    /\ (ppc = "done" /\ pout.result # NilResult)
          => (pnet.kind = "resp" /\ pnet.status = StatusOK)
    /\ AnsweredNot200 => StatusErrorReturned

\* C27, amended: a provider returns a result only when the status is exactly
\* 200; for every other status, 201 and 204 included, it returns no result
\* and never the error of a parse of the body: it returns the status error,
\* except that the Chutes provider returns its read error when the read of
\* the body, which it does before it looks at the status, fails
C27_ResultOnlyOnStatus200 ==
    /\ (ppc = "done" /\ pout.result # NilResult)
          => (pnet.kind = "resp" /\ pnet.status = StatusOK)
    /\ AnsweredNot200 =>
          /\ pout.result = NilResult
          /\ pout.err.kind # "ResponseDecodeFailed"
          /\ IF pcall.kind = "chutes" /\ ~pnet.readOK
             THEN pout.err = ErrReadFailed("Chutes")
             ELSE StatusErrorReturned

\* a 201 whose body is a transcription ElevenLabs would accept
C27_Witness ==
    /\ AnsweredNot200
    /\ pcall.kind = "elevenlabs"
    /\ pnet = Response(201, ObjBody, TRUE)
    /\ StatusErrorReturned

C27_WitnessChutes ==
    /\ AnsweredNot200
    /\ pcall.kind = "chutes"
    /\ pnet = Response(201, ArrBody, TRUE)
    /\ StatusErrorReturned

\* ------------------------------------------------------------ startup after startup
InitEnsure ==
    ChainIdle /\ ProviderIdle /\ WavIdle /\ SpeakIdle /\ SSEIdle /\ EnsureInit /\ CLIIdle

NextEnsure ==
    \/ Startup
    \/ EnsureSuperuser
    \/ EnsureSilenceCollection
    \/ EnsureAppsCollection

SpecEnsure == InitEnsure /\ [][NextEnsure]_vars

SuperusersWithEmail(email) ==
    { k \in 1..Len(superusers) : superusers[k].email = email }

\* the database is left as it is and the hook goes on to the given step,
\* which it does only when the Ensure call returned nil
NothingSavedThen(next) ==
    /\ collections' = collections
    /\ superusers' = superusers
    /\ epc' = next

InitCLI ==
    ChainIdle /\ ProviderIdle /\ WavIdle /\ SpeakIdle /\ SSEIdle /\ EnsureIdle /\ CLIInit

NextCLI ==
    \/ RecordAudio
    \/ GoStdoutPipe
    \/ GoStart
    \/ GoReadAll
    \/ GoWait
    \/ KeyPress
    \/ TimerFires
    \/ SelectData
    \/ SelectErr
    \/ SelectTimeout

\* Every goroutine that can take a step takes it, the 30 seconds pass, and
\* ffmpeg ends once the context is cancelled (exec.CommandContext kills it).
\* A key may never be pressed and ffmpeg may record for ever.
SpecCLI ==
    /\ InitCLI
    /\ [][NextCLI]_vars
    /\ WF_vars(RecordAudio)
    /\ WF_vars(GoStdoutPipe)
    /\ WF_vars(GoStart)
    /\ WF_vars(ctxDone /\ GoReadAll)
    /\ WF_vars(GoWait)
    /\ WF_vars(TimerFires)
    /\ WF_vars(SelectData)
    /\ WF_vars(SelectErr)
    /\ WF_vars(SelectTimeout)

Outcomes == {"data", "error", "timeout"}

\* C30 as stated: recordAudio returns one outcome, the data, an error or
\* the timeout error, which then stands, and once it has returned the
\* recording goroutine eventually ends instead of staying blocked on its
\* send to dataChan or errChan.
C30_AsStated ==
    /\ [](rpc = "returned" => rret.kind \in Outcomes)
    /\ [][rpc = "returned" => rret' = rret]_vars
    /\ (rpc = "returned") ~> (gpc = "done")

\* what does hold: one outcome, and a goroutine that is not done after the
\* return only when the return was the timeout's
C30_OneOutcome ==
    /\ [](rpc = "returned" => rret.kind \in Outcomes)
    /\ [][rpc = "returned" => rret' = rret]_vars
    /\ []((rpc = "returned" /\ rret.kind # "timeout") => gpc = "done")

\* the timeout was returned and the goroutine stands at its send for good
C30_Blocked ==
    /\ rpc = "returned"
    /\ rret.kind = "timeout"
    /\ gpc = "send data"
====
